---- MODULE Spec2Model ----
(***************************************************************************)
(* A model of resticserver.Application, the WSGI application that serves   *)
(* the restic REST protocol out of a directory tree.                       *)
(*                                                                         *)
(* Text and bytes are TLA+ strings (one character per byte); a filesystem  *)
(* path is the sequence of its components.  One request is one step: the   *)
(* dispatcher picks a handler and the server consumes the generator it     *)
(* returns, which records the start_response calls, the body chunks and a  *)
(* raised exception, in order, in resp.  Where requests overlap, each has  *)
(* a frame and one step is one system call of one of them; where a loop is *)
(* followed, the frame holds its variables and one step is one read.       *)
(***************************************************************************)
EXTENDS Integers, Sequences, FiniteSets, TLC

VARIABLES
    fs,     \* the directory tree: canonical path -> node
    req,    \* the environ of the last request
    resp,   \* what consuming the last response produced, in order
    entry,  \* what the last call entered: "__iter__", a handler or "get_path"
    frames  \* the generators under way: request -> frame (in SpecParse: what
            \* get_path returned)

vars == <<fs, req, resp, entry, frames>>

-----------------------------------------------------------------------------
(* The records of the model *)

\* the WSGI environ of a request; HTTP_RANGE is <<>> when the request has
\* no Range header and <<value>> when it has one; wsgi_input is the body
Environ(REQUEST_METHOD, PATH_INFO, QUERY_STRING, HTTP_RANGE, wsgi_input) ==
    [REQUEST_METHOD |-> REQUEST_METHOD, PATH_INFO |-> PATH_INFO,
     QUERY_STRING |-> QUERY_STRING, HTTP_RANGE |-> HTTP_RANGE,
     wsgi_input |-> wsgi_input]

\* a node of the directory tree
Node(kind, content) == [kind |-> kind, content |-> content]

\* one thing the server sees while it consumes a response
Event(ev, status, headers, data) ==
    [ev |-> ev, status |-> status, headers |-> headers, data |-> data]

\* an outcome of a handler, and the result of a filesystem call
Outcome(f, events) == {[fs |-> f, ev |-> events]}
Result(f, ok) == [fs |-> f, ok |-> ok]

\* an entry of a listing
Entry(name, size) == [name |-> name, size |-> size]

-----------------------------------------------------------------------------
(* Module constants of resticserver.py *)

READ_BYTES == 8192

RESTIC_TYPES == <<"data", "keys", "locks", "snapshots", "index", "config">>

HTTP_RESPONSES(code) ==
    CASE code = 200 -> "200 OK"
      [] code = 206 -> "206 PARTIAL_CONTENT"
      [] code = 404 -> "404 NOT_FOUND"
      [] code = 500 -> "500 INTERNAL_SERVER_ERROR"

\* config.ROOT_PATH: a directory one level below the top of the tree
ROOT_PATH == <<"srv">>

\* Python's None for a string-valued slot.  Every string it stands beside
\* (a regular-expression group of one character or more) is non-empty.
None == ""

-----------------------------------------------------------------------------
(* Strings *)

Min(a, b) == IF a < b THEN a ELSE b

\* s[i:j] of Python for 0 <= i: the characters at offsets i .. j-1 that exist
Slice(s, i, j) ==
    IF i >= Min(j, Len(s)) THEN "" ELSE SubSeq(s, i + 1, Min(j, Len(s)))

\* the character at offset i (0-based), "" past the end
CharAt(s, i) == Slice(s, i, i + 1)

IsDigit(c) == c \in {"0", "1", "2", "3", "4", "5", "6", "7", "8", "9"}

DigitVal(c) ==
    CASE c = "0" -> 0 [] c = "1" -> 1 [] c = "2" -> 2 [] c = "3" -> 3
      [] c = "4" -> 4 [] c = "5" -> 5 [] c = "6" -> 6 [] c = "7" -> 7
      [] c = "8" -> 8 [] c = "9" -> 9

DigitChar(d) == SubSeq("0123456789", d + 1, d + 1)

RECURSIVE int(_)
\* int(s) for a non-empty string of decimal digits
int(s) ==
    IF Len(s) = 1 THEN DigitVal(s)
    ELSE 10 * int(SubSeq(s, 1, Len(s) - 1)) + DigitVal(SubSeq(s, Len(s), Len(s)))

RECURSIVE str(_)
\* str(n) for an integer
str(n) ==
    IF n < 0 THEN "-" \o str(0 - n)
    ELSE IF n < 10 THEN DigitChar(n)
    ELSE str(n \div 10) \o DigitChar(n % 10)

\* the length of the longest run of characters from offset i on that are
\* digits (digits = TRUE) or are no slash (digits = FALSE): the run ends at
\* the first character of the other kind, or with the string
RunLen(s, i, digits) ==
    LET stops == {k \in i..(Len(s) - 1) :
                    IF digits THEN ~IsDigit(CharAt(s, k)) ELSE CharAt(s, k) = "/"}
    IN  IF stops # {} THEN (CHOOSE k \in stops : \A j \in stops : k <= j) - i
        ELSE IF i < Len(s) THEN Len(s) - i
        ELSE 0

\* the answer of a failed match
NoMatch == <<>>

\* a backtracking matcher tries a first alternative and, only if the rest
\* of the pattern does not match after it, a second one
OrElse(first, second) == IF first # NoMatch THEN first ELSE second

-----------------------------------------------------------------------------
(* PATH_RE, RANGE_RE and the query string.  Each operator below matches    *)
(* the rest of a pattern from offset i of s, trying the alternatives in    *)
(* the order of a backtracking matcher: an optional item first present     *)
(* then absent, a repetition first longest.  m is <<path, type, name>>,    *)
(* the groups matched so far.                                              *)

HasAt(s, i, tok) == Slice(s, i, i + Len(tok)) = tok

\* '$': the end of the string, or just before a newline that ends it
AtEnd(s, i) == i = Len(s) \/ (i = Len(s) - 1 /\ CharAt(s, i) = "\n")

\* /?$
PathEnd(s, i, m) ==
    OrElse(IF CharAt(s, i) = "/" /\ AtEnd(s, i + 1) THEN m ELSE NoMatch,
           IF AtEnd(s, i) THEN m ELSE NoMatch)

RECURSIVE PathName(_, _, _, _)
\* (?P<name>[^/]+)?/?$ with at most n characters taken for name
PathName(s, i, m, n) ==
    IF n = 0 THEN PathEnd(s, i, <<m[1], m[2], None>>)
    ELSE OrElse(PathEnd(s, i + n, <<m[1], m[2], Slice(s, i, i + n)>>),
                PathName(s, i, m, n - 1))

\* /?(?P<name>[^/]+)?/?$
PathAfterType(s, i, m) ==
    OrElse(IF CharAt(s, i) = "/"
           THEN PathName(s, i + 1, m, RunLen(s, i + 1, FALSE))
           ELSE NoMatch,
           PathName(s, i, m, RunLen(s, i, FALSE)))

RECURSIVE PathType(_, _, _, _)
\* (?P<type>data|keys|locks|snapshots|index|config)?/?(?P<name>[^/]+)?/?$
\* from the k-th alternative of the type group on
PathType(s, i, m, k) ==
    IF k > Len(RESTIC_TYPES) THEN PathAfterType(s, i, <<m[1], None, None>>)
    ELSE OrElse(IF HasAt(s, i, RESTIC_TYPES[k])
                THEN PathAfterType(s, i + Len(RESTIC_TYPES[k]),
                                   <<m[1], RESTIC_TYPES[k], None>>)
                ELSE NoMatch,
                PathType(s, i, m, k + 1))

\* /?(?P<type>...)?/?(?P<name>[^/]+)?/?$
PathAfterRepo(s, i, m) ==
    OrElse(IF CharAt(s, i) = "/" THEN PathType(s, i + 1, m, 1) ELSE NoMatch,
           PathType(s, i, m, 1))

\* a variant of the path group that takes as few characters as it can:
\* (?P<path>[^/]+?)
PathRepo_lazy(s, i, n) ==
    LET After(k) == PathAfterRepo(s, i + k, <<Slice(s, i, i + k), None, None>>)
        fits == {k \in 1..n : After(k) # NoMatch}
    IN  IF fits = {} THEN NoMatch
        ELSE After(CHOOSE k \in fits : \A j \in fits : k <= j)

RECURSIVE PathRepo(_, _, _)
\* (?P<path>[^/]+)/?(?P<type>...)?/?(?P<name>[^/]+)?/?$ with at most n
\* characters taken for path
PathRepo(s, i, n) ==
    IF n = 0 THEN NoMatch
    ELSE OrElse(PathAfterRepo(s, i + n, <<Slice(s, i, i + n), None, None>>),
                PathRepo(s, i, n - 1))

\* PATH_RE.match(s): <<path, type, name>>, or NoMatch
PATH_RE(s) ==
    OrElse(IF CharAt(s, 0) = "/" THEN PathRepo(s, 1, RunLen(s, 1, FALSE)) ELSE NoMatch,
           PathRepo(s, 0, RunLen(s, 0, FALSE)))

\* Application.get_path
get_path(environ) ==
    LET match == PATH_RE(environ.PATH_INFO)
    IN  IF match # NoMatch THEN match ELSE <<None, None, None>>

RECURSIVE RangeStart(_, _)
\* (?P<start>\d+)-(?P<end>\d+)? after 'bytes=', with at most n digits taken
\* for start
RangeStart(s, n) ==
    IF n = 0 THEN NoMatch
    ELSE OrElse(IF CharAt(s, 6 + n) = "-"
                THEN <<Slice(s, 6, 6 + n),
                       Slice(s, 6 + n + 1, 6 + n + 1 + RunLen(s, 6 + n + 1, TRUE))>>
                ELSE NoMatch,
                RangeStart(s, n - 1))

\* a variant of RANGE_RE that ends with '$': the whole header must be one range
RANGE_RE_whole(s) ==
    LET m == IF HasAt(s, 0, "bytes=") THEN RangeStart(s, RunLen(s, 6, TRUE)) ELSE NoMatch
    IN  IF m # NoMatch /\ AtEnd(s, 6 + Len(m[1]) + 1 + Len(m[2])) THEN m ELSE NoMatch

\* RANGE_RE.match(s): <<start, end>> (end = None when the group is absent),
\* or NoMatch.  The pattern is anchored at the start only.
RANGE_RE(s) ==
    IF HasAt(s, 0, "bytes=") THEN RangeStart(s, RunLen(s, 6, TRUE)) ELSE NoMatch

RECURSIVE Find(_, _, _)
\* s.find(c, i) for a single character c: its first offset from i on, or -1
Find(s, c, i) ==
    IF i >= Len(s) THEN -1
    ELSE IF CharAt(s, i) = c THEN i
    ELSE Find(s, c, i + 1)

RECURSIVE Split(_, _)
\* s.split(c) for a single character c
Split(s, c) ==
    LET k == Find(s, c, 0)
    IN  IF k < 0 THEN <<s>>
        ELSE <<Slice(s, 0, k)>> \o Split(Slice(s, k + 1, Len(s)), c)

RECURSIVE PlusToSpace(_)
\* s.replace('+', ' ')
PlusToSpace(s) ==
    IF s = "" THEN ""
    ELSE (IF Head(s) = "+" THEN " " ELSE Head(s)) \o PlusToSpace(Tail(s))

\* the characters of the codes 32 to 95 and 97 to 126, in order
Ascii ==
    " !\"#$%&'()*+,-./0123456789:;<=>?@ABCDEFGHIJKLMNOPQRSTUVWXYZ[\\]^_"
        \o "abcdefghijklmnopqrstuvwxyz{|}~"

RECURSIVE unquote(_)
\* urllib.parse.unquote(s): every '%' followed by two hexadecimal digits
\* becomes the character of that code, in one pass; any other '%' stays.
\* (Code 96 and the codes outside 32..126 are outside the alphabet of the
\* model and stay as they are written.)
unquote(s) ==
    LET Hex(c) == IF IsDigit(c) THEN DigitVal(c)
                  ELSE IF c \in {"a", "A"} THEN 10 ELSE IF c \in {"b", "B"} THEN 11
                  ELSE IF c \in {"c", "C"} THEN 12 ELSE IF c \in {"d", "D"} THEN 13
                  ELSE IF c \in {"e", "E"} THEN 14 ELSE IF c \in {"f", "F"} THEN 15
                  ELSE -1
        code == 16 * Hex(CharAt(s, 1)) + Hex(CharAt(s, 2))
    IN  IF s = "" THEN ""
        ELSE IF /\ CharAt(s, 0) = "%"
                /\ Len(s) >= 3
                /\ Hex(CharAt(s, 1)) >= 0
                /\ Hex(CharAt(s, 2)) >= 0
                /\ code \in (32..126) \ {96}
        THEN CharAt(Ascii, IF code < 96 THEN code - 32 ELSE code - 33)
             \o unquote(Slice(s, 3, Len(s)))
        ELSE SubSeq(s, 1, 1) \o unquote(Slice(s, 1, Len(s)))

\* a variant of parse_qs that keeps one value for a name, the first
QueryValues_first(qs, name) ==
    LET fields == Split(qs, "&")
        Raw(f) == Slice(f, Find(f, "=", 0) + 1, Len(f))
        Key(f) == unquote(PlusToSpace(Slice(f, 0, Find(f, "=", 0))))
        Val(f) == unquote(PlusToSpace(Raw(f)))
        Kept(f) == Find(f, "=", 0) >= 0 /\ Raw(f) # "" /\ Key(f) = name
        kept == SelectSeq(fields, Kept)
    IN  IF kept = <<>> THEN <<>> ELSE <<Val(kept[1])>>

\* urllib.parse.parse_qs(qs).get(name, []): the values of the fields
\* 'name=value' of qs, in order, split at '&' and at the first '=', with
\* '+' read as a blank and percent escapes decoded in names and values; a
\* field without '=' or with an empty value is dropped.
QueryValues(qs, name) ==
    LET fields == Split(qs, "&")
        Raw(f) == Slice(f, Find(f, "=", 0) + 1, Len(f))
        Key(f) == unquote(PlusToSpace(Slice(f, 0, Find(f, "=", 0))))
        Val(f) == unquote(PlusToSpace(Raw(f)))
        Kept(f) == Find(f, "=", 0) >= 0 /\ Raw(f) # "" /\ Key(f) = name
        kept == SelectSeq(fields, Kept)
    IN  [k \in 1..Len(kept) |-> Val(kept[k])]

InSeq(x, s) == \E k \in 1..Len(s) : s[k] = x

-----------------------------------------------------------------------------
(* The filesystem.  fs maps the canonical path of every existing node to   *)
(* the node; <<>> is the top directory and ROOT_PATH lies below it.  A     *)
(* path handed to the operating system is resolved component by component, *)
(* '.' and '..' included.                                                  *)

Dir == Node("dir", "")
File(content) == Node("file", content)

\* what os.stat reports as st_size for a directory
DirSize == 4096

IsDir(f, c) == c \in DOMAIN f /\ f[c].kind = "dir"
IsFile(f, c) == c \in DOMAIN f /\ f[c].kind = "file"

Parent(c) == IF c = <<>> THEN <<>> ELSE SubSeq(c, 1, Len(c) - 1)
IsPrefix(c, x) == Len(c) <= Len(x) /\ SubSeq(x, 1, Len(c)) = c

\* the answer of a failed resolution: no path has an empty component
NoPath == <<"">>

\* the longest name of a directory entry: a path with a longer component
\* names nothing and nothing can be made at it (ENAMETOOLONG)
NAME_MAX == 255

RECURSIVE Walk(_, _, _)
\* the node the components rest lead to from directory cur; the last
\* component need not exist, every one before it must be a directory
Walk(f, cur, rest) ==
    IF rest = <<>> THEN cur
    ELSE IF ~IsDir(f, cur) \/ Len(Head(rest)) > NAME_MAX THEN NoPath
    ELSE LET seg == Head(rest)
         IN  Walk(f,
                  IF seg = "." THEN cur
                  ELSE IF seg = ".." THEN Parent(cur)
                  ELSE Append(cur, seg),
                  Tail(rest))

Resolve(f, p) == Walk(f, <<>>, p)

\* os.path.exists(p)
exists(f, p) == Resolve(f, p) # NoPath /\ Resolve(f, p) \in DOMAIN f

\* os.stat(p).st_size and stat.S_ISREG(os.stat(p).st_mode), for an existing p
st_size(f, p) ==
    LET node == f[Resolve(f, p)]
    IN  IF node.kind = "file" THEN Len(node.content) ELSE DirSize

S_ISREG(f, p) == IsFile(f, Resolve(f, p))

Put(f, c, node) == [x \in DOMAIN f \cup {c} |-> IF x = c THEN node ELSE f[x]]

\* os.mkdir(p): fails when p exists or its parent is no directory
mkdir(f, p) ==
    LET c == Resolve(f, p)
    IN  IF c # NoPath /\ c \notin DOMAIN f
        THEN Result(Put(f, c, Dir), TRUE)
        ELSE Result(f, FALSE)

\* a variant of mkdirs that makes the first of the paths only
mkdirs_first(f, ps) ==
    IF ps = <<>> THEN Result(f, TRUE) ELSE mkdir(f, Head(ps))

RECURSIVE mkdirs(_, _)
\* os.mkdir on each path of ps in turn, up to the first that fails
mkdirs(f, ps) ==
    IF ps = <<>> THEN Result(f, TRUE)
    ELSE LET r == mkdir(f, Head(ps))
         IN  IF r.ok THEN mkdirs(r.fs, Tail(ps)) ELSE r

\* a variant of write_file that opens with 'ab': what is written follows the
\* content the file has
write_file_append(f, p, content) ==
    LET c == Resolve(f, p)
    IN  IF c # NoPath /\ ~IsDir(f, c)
        THEN Result(Put(f, c, File((IF IsFile(f, c) THEN f[c].content ELSE "") \o content)),
                    TRUE)
        ELSE Result(f, FALSE)

\* open(p, 'wb'), the writes of content, close: fails when p is a directory
\* or its parent is no directory; an existing file is truncated first
write_file(f, p, content) ==
    LET c == Resolve(f, p)
    IN  IF c # NoPath /\ ~IsDir(f, c)
        THEN Result(Put(f, c, File(content)), TRUE)
        ELSE Result(f, FALSE)

\* os.unlink(p): fails unless p is an existing file
\* a variant of unlink that reports success and leaves the file in place
unlink_nothing(f, p) == Result(f, IsFile(f, Resolve(f, p)))

unlink(f, p) ==
    LET c == Resolve(f, p)
    IN  IF IsFile(f, c)
        THEN Result([x \in DOMAIN f \ {c} |-> f[x]], TRUE)
        ELSE Result(f, FALSE)

\* a variant of rmtree that removes the regular files below p and leaves
\* the directories in place
rmtree_files(f, p) ==
    LET c == Resolve(f, p)
    IN  IF ~IsDir(f, c) THEN Result(f, FALSE)
        ELSE Result([x \in {y \in DOMAIN f : ~(IsPrefix(c, y) /\ IsFile(f, y))}
                       |-> f[x]],
                    TRUE)

\* shutil.rmtree(p): fails at once unless p is a directory; removes what is
\* below it, then the directory itself with os.rmdir(p), which fails when p
\* ends in '.' or '..' or names the top directory
rmtree(f, p) ==
    LET c == Resolve(f, p)
        last == p[Len(p)]
        whole == last \notin {".", ".."} /\ c # <<>>
    IN  IF ~IsDir(f, c) THEN Result(f, FALSE)
        ELSE Result([x \in {y \in DOMAIN f : ~IsPrefix(c, y) \/ (y = c /\ ~whole)}
                       |-> f[x]],
                    whole)

\* the names os.listdir(p) returns, for a directory p
listdir(f, p) ==
    LET c == Resolve(f, p)
    IN  {x[Len(x)] : x \in {y \in DOMAIN f : Len(y) = Len(c) + 1 /\ IsPrefix(c, y)}}

RECURSIVE Orders(_)
\* os.listdir returns the names in an order of the filesystem's choosing:
\* every enumeration of the set S
Orders(S) ==
    IF S = {} THEN {<<>>}
    ELSE UNION {{<<x>> \o t : t \in Orders(S \ {x})} : x \in S}

-----------------------------------------------------------------------------
(* Streams.  A response is the sequence of what the server sees when it    *)
(* consumes the generator: calls of start_response, yielded chunks, and at *)
(* most one exception, which ends it.                                      *)

Start(status, headers) ==
    Event("start_response", status, headers, "")
Yield(data) ==
    Event("yield", "", <<>>, data)
Raise(exc) ==
    Event("raise", "", <<>>, exc)

\* a variant of read_chunks without the loop: one read(READ_BYTES) only
read_chunks_once(content, pos) ==
    LET data == Slice(content, pos, pos + READ_BYTES)
    IN  IF Len(data) = 0 THEN <<>> ELSE <<data>>

RECURSIVE read_chunks(_, _)
\* the values of stream.read(READ_BYTES) from offset pos on, up to the first
\* empty one:  while True: data = read(READ_BYTES); if not data: break
read_chunks(content, pos) ==
    LET data == Slice(content, pos, pos + READ_BYTES)
    IN  IF Len(data) = 0 THEN <<>>
        ELSE <<data>> \o read_chunks(content, pos + Len(data))

RECURSIVE Join(_)
Join(chunks) == IF chunks = <<>> THEN "" ELSE Head(chunks) \o Join(Tail(chunks))

\* what the copy loops of set_config and set_path_data write to out_file
copy_input(environ) == Join(read_chunks(environ.wsgi_input, 0))

\* the body of the full-read loops of get_config and get_path_data
full_read(content) ==
    LET chunks == read_chunks(content, 0)
    IN  [k \in 1..Len(chunks) |-> Yield(chunks[k])]

\* a variant of range_read without the loop: one read(READ_BYTES) only
range_read_once(content, pos, sent_length, length) ==
    LET data == Slice(content, pos, pos + READ_BYTES)
    IN  IF Len(data) = 0 \/ sent_length >= length THEN <<>>
        ELSE <<Yield(IF sent_length + Len(data) > length
                     THEN Slice(data, 0, length - sent_length)
                     ELSE data)>>

RECURSIVE range_read(_, _, _, _)
\* the loop of get_path_data after in_file.seek(start): pos is the file
\* offset, sent_length and length are the loop's variables
range_read(content, pos, sent_length, length) ==
    LET data == Slice(content, pos, pos + READ_BYTES)
    IN  IF Len(data) = 0 \/ sent_length >= length THEN <<>>
        ELSE <<Yield(IF sent_length + Len(data) > length
                     THEN Slice(data, 0, length - sent_length)
                     ELSE data)>>
             \o range_read(content, pos + Len(data), sent_length + Len(data), length)

-----------------------------------------------------------------------------
(* The handlers.  Each gives the set of outcomes [fs, ev] of consuming the *)
(* generator it returns on filesystem f: the filesystem left behind and    *)
(* the events of the response.  A handler has several outcomes only where  *)
(* the order of a directory listing shows.                                 *)

\* the exception of the valid_methods wrapper, raised by the call itself
MethodNotAllowed == Event("raise_at_call", "", <<>>, "Method not allowed")

\* a variant of the decorator that lets every method through
valid_methods_any(methods, environ, f, outcomes) == outcomes

\* the decorator: the wrapped function runs only for an allowed method
valid_methods(methods, environ, f, outcomes) ==
    IF environ.REQUEST_METHOD \notin methods
    THEN Outcome(f, <<MethodNotAllowed>>)
    ELSE outcomes

\* a variant of yield_error that answers as send_not_found does
yield_error_not_found(message) ==
    <<Start(HTTP_RESPONSES(404), << <<"Content-Type", "text/plain">> >>),
      Yield(message)>>

\* send_error and yield_error, with the yield of the returned message
send_error(message) ==
    <<Start(HTTP_RESPONSES(500), << <<"Content-Type", "text/plain">> >>),
      Yield(message)>>

yield_error(message) == send_error(message)

\* a variant of send_not_found that answers as send_error does
send_not_found_as_error(message) == send_error(message)

\* a variant of send_not_found that announces its message as HTML
send_not_found_html(message) ==
    <<Start(HTTP_RESPONSES(404), << <<"Content-Type", "text/html">> >>),
      Yield(message)>>

send_not_found(message) ==
    <<Start(HTTP_RESPONSES(404), << <<"Content-Type", "text/plain">> >>),
      Yield(message)>>

\* a variant of TypeDirs that makes a directory for every type
TypeDirs_all == RESTIC_TYPES

\* the types that are directories of a repository
TypeDirs == SelectSeq(RESTIC_TYPES, LAMBDA t : t # "config")

\* a variant of create_repository that makes whatever is missing of the
\* repository, also when its directory exists
create_repository_repair(f, environ, path) ==
    valid_methods({"POST"}, environ, f,
        IF path = None
        THEN Outcome(f, <<Raise("TypeError")>>)
        ELSE
        LET full_path == ROOT_PATH \o <<path>>
            all == <<full_path>>
                       \o [k \in 1..Len(TypeDirs) |-> full_path \o <<TypeDirs[k]>>]
            made == mkdirs(f, SelectSeq(all, LAMBDA d : ~exists(f, d)))
            ok == <<Start(HTTP_RESPONSES(200), <<>>), Yield("")>>
        IN  Outcome(made.fs,
                    (IF made.ok THEN <<>>
                     ELSE send_error("Failed to create repository.")) \o ok))

create_repository(f, environ, path) ==
    valid_methods({"POST"}, environ, f,
        IF path = None
        THEN Outcome(f, <<Raise("TypeError")>>)      \* os.path.join(ROOT_PATH, None)
        ELSE
        LET full_path == ROOT_PATH \o <<path>>
            made == mkdirs(f, <<full_path>>
                              \o [k \in 1..Len(TypeDirs) |-> full_path \o <<TypeDirs[k]>>])
            ok == <<Start(HTTP_RESPONSES(200), <<>>), Yield("")>>
        IN  IF ~exists(f, full_path)
            THEN Outcome(made.fs,
                         (IF made.ok THEN <<>>
                          ELSE send_error("Failed to create repository.")) \o ok)
            ELSE Outcome(f, ok))

delete_repository(f, environ, path) ==
    valid_methods({"DELETE"}, environ, f,
        LET full_path == ROOT_PATH \o <<path>>
            gone == rmtree(f, full_path)
        IN  IF exists(f, full_path)
            THEN Outcome(gone.fs,
                         IF gone.ok THEN <<Start(HTTP_RESPONSES(200), <<>>), Yield("")>>
                         ELSE <<Raise("OSError")>>)
            ELSE Outcome(f, send_error("Repository does not exist.")))

\* a variant of config_exists that reports a missing config as not found
config_exists_not_found(f, environ, path) ==
    valid_methods({"HEAD"}, environ, f,
        LET full_path == ROOT_PATH \o <<path, "config">>
        IN  IF exists(f, full_path)
            THEN Outcome(f, <<Start(HTTP_RESPONSES(200),
                                    << <<"Content-Type", "text/plain">>,
                                       <<"Content-Length", str(st_size(f, full_path))>> >>),
                              Yield("")>>)
            ELSE Outcome(f, send_not_found("Configuration does not exist.")))

config_exists(f, environ, path) ==
    valid_methods({"HEAD"}, environ, f,
        LET full_path == ROOT_PATH \o <<path, "config">>
        IN  IF exists(f, full_path)
            THEN Outcome(f, <<Start(HTTP_RESPONSES(200),
                                    << <<"Content-Type", "text/plain">>,
                                       <<"Content-Length", str(st_size(f, full_path))>> >>),
                              Yield("")>>)
            ELSE Outcome(f, send_error("Configuration does not exist.")))

get_config(f, environ, path) ==
    valid_methods({"GET"}, environ, f,
        LET full_path == ROOT_PATH \o <<path, "config">>
        IN  IF exists(f, full_path)
            THEN Outcome(f, <<Start(HTTP_RESPONSES(200),
                                    << <<"Content-Type", "binary/octet-stream">>,
                                       <<"Content-Length", str(st_size(f, full_path))>> >>)>>
                            \o (IF S_ISREG(f, full_path)
                                THEN full_read(f[Resolve(f, full_path)].content)
                                ELSE <<Raise("OSError")>>))
            ELSE Outcome(f, send_error("Configuration does not exist.")))

set_config(f, environ, path) ==
    valid_methods({"POST"}, environ, f,
        LET full_path == ROOT_PATH \o <<path, "config">>
            written == write_file(f, full_path, copy_input(environ))
        IN  IF written.ok
            THEN Outcome(written.fs, <<Start(HTTP_RESPONSES(200), <<>>), Yield("")>>)
            ELSE Outcome(f, <<Raise("OSError")>>))

RECURSIVE JsonString(_)
\* the characters of a JSON string literal, between its quotes
JsonString(s) ==
    IF s = "" THEN ""
    ELSE (CASE Head(s) = "\"" -> "\\\""
            [] Head(s) = "\\" -> "\\\\"
            [] Head(s) = "\n" -> "\\n"
            [] OTHER -> Head(s)) \o JsonString(Tail(s))

RECURSIVE JsonItems(_)
JsonItems(results) ==
    IF results = <<>> THEN ""
    ELSE "{\"name\": \"" \o JsonString(results[1].name) \o "\", \"size\": "
         \o str(results[1].size) \o "}"
         \o (IF Len(results) > 1 THEN ", " ELSE "") \o JsonItems(Tail(results))

\* json.dumps of a list of {'name': str, 'size': int}
json_dumps(results) == "[" \o JsonItems(results) \o "]"

\* a variant of entries that names each file after the directory it is in
entries_by_folder(f, dir, names) ==
    LET regular == SelectSeq(names, LAMBDA n : S_ISREG(f, dir \o <<n>>))
    IN  [k \in 1..Len(regular) |->
            Entry(dir[Len(dir)], st_size(f, dir \o <<regular[k]>>))]

\* the entries the inner loop appends for the names of one directory, taken
\* in the order given
entries(f, dir, names) ==
    LET regular == SelectSeq(names, LAMBDA n : S_ISREG(f, dir \o <<n>>))
    IN  [k \in 1..Len(regular) |->
            Entry(regular[k], st_size(f, dir \o <<regular[k]>>))]

RECURSIVE data_entries(_, _, _)
\* the lists the loop over the shard folders can build, the folders taken in
\* the order given and the names inside each in any order
data_entries(f, dir, folders) ==
    IF folders = <<>> THEN {<<>>}
    ELSE {a \o b : a \in {entries(f, dir \o <<Head(folders)>>, o) :
                            o \in Orders(listdir(f, dir \o <<Head(folders)>>))},
                   b \in data_entries(f, dir, Tail(folders))}

get_path_list(f, environ, path, restic_type) ==
    valid_methods({"GET"}, environ, f,
        LET full_path == ROOT_PATH \o <<path, restic_type>>
            listable == IsDir(f, Resolve(f, full_path))
                        /\ (restic_type = "data" =>
                              \A folder \in listdir(f, full_path) :
                                  IsDir(f, Resolve(f, full_path \o <<folder>>)))
            lists == IF restic_type = "data"
                     THEN UNION {data_entries(f, full_path, o) :
                                   o \in Orders(listdir(f, full_path))}
                     ELSE {entries(f, full_path, o) : o \in Orders(listdir(f, full_path))}
        IN  IF ~listable THEN Outcome(f, <<Raise("OSError")>>)    \* os.listdir fails
            ELSE UNION {Outcome(f, <<Start(HTTP_RESPONSES(200),
                                           << <<"Content-Type",
                                                "application/vnd.x.restic.rest.v2">> >>),
                                     Yield(json_dumps(results))>>) : results \in lists})

\* a variant of get_path_check that consumes what it finds: the file is
\* removed once its size has been reported
get_path_check_unlink(f, environ, path, restic_type, name) ==
    valid_methods({"HEAD"}, environ, f,
        LET full_path == IF restic_type = "data"
                         THEN ROOT_PATH \o <<path, restic_type, Slice(name, 0, 2), name>>
                         ELSE ROOT_PATH \o <<path, restic_type, name>>
        IN  IF exists(f, full_path)
            THEN Outcome(unlink(f, full_path).fs,
                         <<Start(HTTP_RESPONSES(200),
                                 << <<"Content-Type", "text/plain">>,
                                    <<"Content-Length", str(st_size(f, full_path))>> >>),
                           Yield("")>>)
            ELSE Outcome(f, send_not_found("Requested path data does not exist.")))

get_path_check(f, environ, path, restic_type, name) ==
    valid_methods({"HEAD"}, environ, f,
        LET full_path == IF restic_type = "data"
                         THEN ROOT_PATH \o <<path, restic_type, Slice(name, 0, 2), name>>
                         ELSE ROOT_PATH \o <<path, restic_type, name>>
        IN  IF exists(f, full_path)
            THEN Outcome(f, <<Start(HTTP_RESPONSES(200),
                                    << <<"Content-Type", "text/plain">>,
                                       <<"Content-Length", str(st_size(f, full_path))>> >>),
                              Yield("")>>)
            ELSE Outcome(f, send_not_found("Requested path data does not exist.")))

get_path_data(f, environ, path, restic_type, name) ==
    valid_methods({"GET"}, environ, f,
        LET full_path == IF restic_type = "data"
                         THEN ROOT_PATH \o <<path, restic_type, Slice(name, 0, 2), name>>
                         ELSE ROOT_PATH \o <<path, restic_type, name>>
            \* environ.get('HTTP_RANGE'): <<>> when the header is absent
            http_range == IF environ.HTTP_RANGE = <<>> THEN None ELSE environ.HTTP_RANGE[1]
            range_match == IF http_range # "" THEN RANGE_RE(http_range) ELSE NoMatch
            start == int(range_match[1])
            end_text == range_match[2]
            end == IF end_text # "" THEN int(end_text) ELSE 0
            \* 'if end' on the integer: also false for an end of 0
            has_end == end_text # "" /\ end # 0
            length == IF has_end THEN end - start + 1 ELSE st_size(f, full_path) - start
            content == f[Resolve(f, full_path)].content
        IN  IF ~exists(f, full_path)
            THEN Outcome(f, send_not_found("Requested path data does not exist."))
            ELSE IF http_range # "" /\ range_match # NoMatch
            THEN Outcome(f, <<Start(HTTP_RESPONSES(206),
                                    << <<"Content-Type", "binary/octet-stream">>,
                                       <<"Content-Length", str(length)>>,
                                       <<"Content-Range",
                                         "bytes=" \o str(start) \o "-"
                                         \o (IF has_end THEN str(end) ELSE "")>> >>)>>
                            \o (IF S_ISREG(f, full_path)
                                THEN range_read(content, start, 0, length)
                                ELSE <<Raise("OSError")>>))
            ELSE Outcome(f, <<Start(HTTP_RESPONSES(200),
                                    << <<"Content-Type", "binary/octet-stream">>,
                                       <<"Content-Length", str(st_size(f, full_path))>> >>)>>
                            \o (IF S_ISREG(f, full_path)
                                THEN full_read(content)
                                ELSE <<Raise("OSError")>>)))

set_path_data(f, environ, path, restic_type, name) ==
    valid_methods({"POST"}, environ, f,
        LET shard == ROOT_PATH \o <<path, restic_type, Slice(name, 0, 2)>>
            made == IF restic_type = "data" /\ ~exists(f, shard)
                    THEN mkdir(f, shard)
                    ELSE Result(f, TRUE)
            full_path == IF restic_type = "data"
                         THEN ROOT_PATH \o <<path, restic_type, Slice(name, 0, 2), name>>
                         ELSE ROOT_PATH \o <<path, restic_type, name>>
            written == write_file(made.fs, full_path, copy_input(environ))
        IN  IF made.ok /\ written.ok
            THEN Outcome(written.fs, <<Start(HTTP_RESPONSES(200), <<>>), Yield("")>>)
            ELSE Outcome(made.fs, <<Raise("OSError")>>))

\* a variant of delete_path_data that looks for every blob directly under
\* the directory of its type
delete_path_data_flat(f, environ, path, restic_type, name) ==
    valid_methods({"DELETE"}, environ, f,
        LET full_path == ROOT_PATH \o <<path, restic_type, name>>
            gone == unlink(f, full_path)
        IN  IF exists(f, full_path)
            THEN Outcome(gone.fs,
                         IF gone.ok THEN <<Start(HTTP_RESPONSES(200), <<>>), Yield("")>>
                         ELSE <<Raise("OSError")>>)
            ELSE Outcome(f, send_error("Path data does not exist.")))

delete_path_data(f, environ, path, restic_type, name) ==
    valid_methods({"DELETE"}, environ, f,
        LET full_path == IF restic_type = "data"
                         THEN ROOT_PATH \o <<path, restic_type, Slice(name, 0, 2), name>>
                         ELSE ROOT_PATH \o <<path, restic_type, name>>
            gone == unlink(f, full_path)
        IN  IF exists(f, full_path)
            THEN Outcome(gone.fs,
                         IF gone.ok THEN <<Start(HTTP_RESPONSES(200), <<>>), Yield("")>>
                         ELSE <<Raise("OSError")>>)
            ELSE Outcome(f, send_error("Path data does not exist.")))

-----------------------------------------------------------------------------
(* Application.__iter__: the dispatcher.  Only the choice of the handler   *)
(* and the method check of its wrapper run inside its try block; the       *)
(* handler's body runs later, when the server consumes the generator.      *)

\* the chain of conditionals of __iter__, for the parsed path
\* <<path, restic_type, name>> and the create directive
route(f, environ, parsed, create) ==
    LET path == parsed[1]
        restic_type == parsed[2]
        name == parsed[3]
        method == environ.REQUEST_METHOD
    IN  IF method = "GET" THEN
            IF path # None /\ restic_type = "config" THEN get_config(f, environ, path)
            ELSE IF path # None /\ restic_type # None /\ name = None
                THEN get_path_list(f, environ, path, restic_type)
            ELSE IF path # None /\ restic_type # None /\ name # None
                THEN get_path_data(f, environ, path, restic_type, name)
            ELSE Outcome(f, yield_error("Not Implemented"))
        ELSE IF method = "POST" THEN
            IF create /\ restic_type = None /\ name = None
                THEN create_repository(f, environ, path)
            ELSE IF path # None /\ restic_type = "config" THEN set_config(f, environ, path)
            ELSE IF path # None /\ restic_type # None /\ name # None
                THEN set_path_data(f, environ, path, restic_type, name)
            ELSE Outcome(f, yield_error("Not Implemented"))
        ELSE IF method = "DELETE" THEN
            IF path # None /\ restic_type = None /\ name = None
                THEN delete_repository(f, environ, path)
            ELSE IF path # None /\ restic_type # None /\ name # None
                THEN delete_path_data(f, environ, path, restic_type, name)
            ELSE Outcome(f, yield_error("Not Implemented"))
        ELSE IF method = "HEAD" THEN
            IF path # None /\ restic_type = "config" THEN config_exists(f, environ, path)
            ELSE IF path # None /\ restic_type # None /\ name # None
                THEN get_path_check(f, environ, path, restic_type, name)
            ELSE Outcome(f, yield_error("Not Implemented"))
        ELSE Outcome(f, yield_error("Unsupported request method."))

\* the except clause of __iter__: an exception raised by the call of a
\* handler becomes the generic error response
except_clause(f, outcomes) ==
    IF \E o \in outcomes : o.ev = <<MethodNotAllowed>>
    THEN Outcome(f, yield_error("Something unexpected occurred."))
    ELSE outcomes

\* Application.__iter__ and the consumption of what it returns
iter(f, environ) ==
    except_clause(f,
        route(f, environ, get_path(environ),
              InSeq("true", QueryValues(environ.QUERY_STRING, "create"))))

-----------------------------------------------------------------------------
(* What a client observes of a response *)

RECURSIVE LastStart(_)
LastStart(ev) ==
    IF ev = <<>> THEN <<>>
    ELSE IF ev[Len(ev)].ev = "start_response" THEN <<ev[Len(ev)]>>
    ELSE LastStart(SubSeq(ev, 1, Len(ev) - 1))

\* the status line, "" when start_response was never called
Status(ev) == IF LastStart(ev) = <<>> THEN "" ELSE LastStart(ev)[1].status

Headers(ev) == IF LastStart(ev) = <<>> THEN <<>> ELSE LastStart(ev)[1].headers

HasHeader(ev, name) == \E k \in 1..Len(Headers(ev)) : Headers(ev)[k][1] = name

\* the value of the header, "" when it is not set
Header(ev, name) ==
    IF HasHeader(ev, name)
    THEN Headers(ev)[CHOOSE k \in 1..Len(Headers(ev)) : Headers(ev)[k][1] = name][2]
    ELSE ""

\* the body: the yielded chunks joined
Body(ev) ==
    LET chunks == SelectSeq(ev, LAMBDA e : e.ev = "yield")
    IN  Join([k \in 1..Len(chunks) |-> chunks[k].data])

Raised(ev) == \E k \in 1..Len(ev) : ev[k].ev = "raise"

-----------------------------------------------------------------------------
(* The server: requests arrive one at a time, each handled to its end *)

\* a body of n bytes; bodies of different lengths share no byte, so a file
\* that mixes two of them is neither
Content(n) == Slice("abcdefghijklmnopqrstuvwxyz", (n * (n - 1)) \div 2, (n * (n + 1)) \div 2)

RECURSIVE Doubled(_, _)
Doubled(s, k) == IF k = 0 THEN s ELSE Doubled(s \o s, k - 1)

\* a body two bytes longer than one read: it takes a second read(READ_BYTES).
\* Its period of 13 bytes does not divide READ_BYTES, so the bytes after an
\* offset tell the offset.
Big == Slice(Doubled("ABCDEFGHIJKLM", 10), 0, READ_BYTES + 2)

Init ==
    /\ fs = [c \in {<<>>, ROOT_PATH} |-> Dir]
    /\ req = Environ("", "", "", <<>>, "")
    /\ resp = <<>>
    /\ entry = ""
    /\ frames = <<>>

\* the response to the request req', from its arrival to the end of the
\* response
Respond ==
    \E o \in iter(fs, req') :
        /\ fs' = o.fs
        /\ resp' = o.ev
        /\ entry' = "__iter__"
        /\ UNCHANGED frames

\* the regular files of a filesystem
Files(f) == {c \in DOMAIN f : f[c].kind = "file"}

-----------------------------------------------------------------------------
(* Spec: every method on one repository, with its config and one blob of   *)
(* each type.  The client keeps at most MaxFiles files stored at a time.   *)

MaxBody == 2
MaxFiles == 1

BlobUrls == {"/r/data/aa0", "/r/keys/k1", "/r/locks/l1", "/r/snapshots/s1", "/r/index/i1"}
ListUrls == {"/r/data", "/r/keys", "/r/locks", "/r/snapshots", "/r/index"}
ConfigUrl == "/r/config"
RepoUrl == "/r"
Urls == {RepoUrl, ConfigUrl} \cup ListUrls \cup BlobUrls

Bodies == {Content(n) : n \in 0..MaxBody} \cup {Big}

DoCreate ==
    /\ req' = Environ("POST", RepoUrl, "create=true", <<>>, "")
    /\ Respond

DoPost ==
    \E p \in {RepoUrl, ConfigUrl} \cup BlobUrls, b \in Bodies :
        /\ req' = Environ("POST", p, "", <<>>, b)
        /\ Respond
        /\ Cardinality(Files(fs')) <= MaxFiles

DoGet ==
    \E p \in Urls :
        /\ req' = Environ("GET", p, "", <<>>, "")
        /\ Respond

DoHead ==
    \E p \in {RepoUrl, ConfigUrl} \cup BlobUrls :
        /\ req' = Environ("HEAD", p, "", <<>>, "")
        /\ Respond

DoDelete ==
    \E p \in {RepoUrl, ConfigUrl} \cup BlobUrls :
        /\ req' = Environ("DELETE", p, "", <<>>, "")
        /\ Respond

DoOther ==
    \E p \in {RepoUrl} :
        /\ req' = Environ("PUT", p, "", <<>>, "")
        /\ Respond

Next == DoCreate \/ DoPost \/ DoGet \/ DoHead \/ DoDelete \/ DoOther

Spec == Init /\ [][Next]_vars

-----------------------------------------------------------------------------
(* SpecList: the listings of one repository while three data blobs, two of *)
(* them in one shard, and a key are written and deleted                    *)

ListedBlobUrls == {"/r/data/aa0", "/r/data/aa1", "/r/data/bb0", "/r/keys/k1"}
ListedUrls == {"/r/data", "/r/keys", "/r/locks"}

ListCreate ==
    /\ req' = Environ("POST", RepoUrl, "create=true", <<>>, "")
    /\ Respond

ListPost ==
    \E p \in ListedBlobUrls, n \in 0..MaxBody :
        /\ req' = Environ("POST", p, "", <<>>, Content(n))
        /\ Respond

ListDelete ==
    \E p \in ListedBlobUrls :
        /\ req' = Environ("DELETE", p, "", <<>>, "")
        /\ Respond

ListGet ==
    \E p \in ListedUrls :
        /\ req' = Environ("GET", p, "", <<>>, "")
        /\ Respond

NextList == ListCreate \/ ListPost \/ ListDelete \/ ListGet

SpecList == Init /\ [][NextList]_vars

-----------------------------------------------------------------------------
(* SpecRange: reads of one data blob under every form of the Range header. *)
(* The blob has one of the contents of up to MaxLen bytes or the two-read  *)
(* content; the offsets in the headers are the small ones up to MaxOffset  *)
(* and those around the end of the first read.                             *)

MaxLen == 3
MaxOffset == 3

RangeUrl == "/r/data/aa0"

Contents == {Content(n) : n \in 0..MaxLen} \cup {Big}

Offsets == (0..MaxOffset) \cup {READ_BYTES - 1 + d : d \in 0..MaxOffset}

\* 'bytes=S-' and 'bytes=S-E'
OpenRange(s) == "bytes=" \o str(s) \o "-"
ClosedRange(s, e) == "bytes=" \o str(s) \o "-" \o str(e)

SingleRanges ==
    {OpenRange(s) : s \in Offsets} \cup {ClosedRange(s, e) : s, e \in Offsets}

\* what follows the first range in a header of several ranges
MoreRanges == {", 7-9"}

\* headers that hold no range: the empty one, a suffix range, another unit,
\* another case, a leading blank, no dash
NoRanges ==
    {"", "bytes", "Bytes=0-1", " bytes=0-1", "items=0-1"}
        \cup {"bytes=-" \o str(n) : n \in Offsets}
        \cup {"bytes=" \o str(n) : n \in Offsets}

\* a range followed by characters that are no list of ranges
TrailedRanges ==
    {OpenRange(s) \o "abc" : s \in Offsets}
        \cup {ClosedRange(s, MaxOffset) \o "x" : s \in Offsets}

RangeCreate ==
    /\ req' = Environ("POST", RepoUrl, "create=true", <<>>, "")
    /\ Respond

RangePost ==
    \E b \in Contents :
        /\ req' = Environ("POST", RangeUrl, "", <<>>, b)
        /\ Respond

RangeGetFull ==
    /\ req' = Environ("GET", RangeUrl, "", <<>>, "")
    /\ Respond

RangeGetSingle ==
    \E h \in SingleRanges :
        /\ req' = Environ("GET", RangeUrl, "", <<h>>, "")
        /\ Respond

RangeGetSeveral ==
    \E h \in SingleRanges, t \in MoreRanges :
        /\ req' = Environ("GET", RangeUrl, "", <<h \o t>>, "")
        /\ Respond

RangeGetOther ==
    \E h \in NoRanges \cup TrailedRanges :
        /\ req' = Environ("GET", RangeUrl, "", <<h>>, "")
        /\ Respond

NextRange ==
    \/ RangeCreate \/ RangePost \/ RangeGetFull
    \/ RangeGetSingle \/ RangeGetSeveral \/ RangeGetOther

SpecRange == Init /\ [][NextRange]_vars

-----------------------------------------------------------------------------
(* SpecTree: every method on every shape of path, over directory trees as  *)
(* an administrator or an interrupted creation can leave them: the         *)
(* repository r absent, or present with none, the first or all of its type *)
(* directories, beside a second repository s that holds a config and two   *)
(* blobs.                                                                  *)

\* the directories of a repository that has the type directories types
RepoDirs(repo, types) ==
    {ROOT_PATH \o <<repo>>} \cup {ROOT_PATH \o <<repo, t>> : t \in types}

TypeDirSet == {TypeDirs[k] : k \in 1..Len(TypeDirs)}

\* the directories of r in the trees the server starts on
RepoTrees ==
    {{}} \cup {RepoDirs("r", ts) : ts \in {{}, {TypeDirs[1]}, TypeDirSet}}

OtherRepoDirs == RepoDirs("s", TypeDirSet) \cup {ROOT_PATH \o <<"s", "data", "bb">>}

OtherRepoFiles ==
    {ROOT_PATH \o <<"s", "config">>,
     ROOT_PATH \o <<"s", "data", "bb", "bb0">>,
     ROOT_PATH \o <<"s", "keys", "k2">>}

\* the tree with the directories dirs and, in each of files, the last
\* component of its path as content
Tree(dirs, files) ==
    [c \in {<<>>, ROOT_PATH} \cup dirs \cup files |->
        IF c \in files THEN File(c[Len(c)]) ELSE Dir]

Trees == {Tree(rd \cup OtherRepoDirs, OtherRepoFiles) : rd \in RepoTrees}

InitTree ==
    /\ fs \in Trees
    /\ req = Environ("", "", "", <<>>, "")
    /\ resp = <<>>
    /\ entry = ""
    /\ frames = <<>>

\* a repository name one character longer than a directory entry can be
LongName == Doubled("x", 8)

TreeUrls ==
    {"/", "/r", "/r/config", "/r/data", "/r/keys", "/r/data/aa0", "/r/keys/k1",
     "/r/keys/k1/x", "/" \o LongName}

TreeRanges == {<<>>, <<"bytes=0-1">>}

TreeCreate ==
    \E p \in TreeUrls :
        /\ req' = Environ("POST", p, "create=true", <<>>, "")
        /\ Respond

TreePost ==
    \E p \in TreeUrls :
        /\ req' = Environ("POST", p, "", <<>>, Content(1))
        /\ Respond

TreeGet ==
    \E p \in TreeUrls, h \in TreeRanges :
        /\ req' = Environ("GET", p, "", h, "")
        /\ Respond

TreeHead ==
    \E p \in TreeUrls :
        /\ req' = Environ("HEAD", p, "", <<>>, "")
        /\ Respond

TreeDelete ==
    \E p \in TreeUrls :
        /\ req' = Environ("DELETE", p, "", <<>>, "")
        /\ Respond

TreeOther ==
    \E p \in TreeUrls, m \in {"PUT", "PATCH"} :
        /\ req' = Environ(m, p, "", <<>>, "")
        /\ Respond

NextTree == TreeCreate \/ TreePost \/ TreeGet \/ TreeHead \/ TreeDelete \/ TreeOther

SpecTree == InitTree /\ [][NextTree]_vars

-----------------------------------------------------------------------------
(* SpecDot: requests whose segments are '.' and '..', beside ordinary ones, *)
(* on a root that starts empty.  The directory above the root holds a      *)
(* directory keys with a file k9 that is no part of what the server serves.*)
(* Two repositories can be made: r, and one with the name of a type, keys. *)

OutsideFile == <<"keys", "k9">>

InitDot ==
    /\ fs = [c \in {<<>>, ROOT_PATH, <<"keys">>, OutsideFile} |->
                IF c = OutsideFile THEN File("k9") ELSE Dir]
    /\ req = Environ("", "", "", <<>>, "")
    /\ resp = <<>>
    /\ entry = ""
    /\ frames = <<>>

DotRepoUrls == {"/r", "/keys", "/.", "/.."}

DotConfigUrls == {"/r/config", "/keys/config", "/../config"}

DotBlobUrls == {"/r/data/aa0", "/./keys/config", "/../keys/k9", "/r/keys/.."}

DotListUrls == {"/r/data", "/./keys", "/../keys"}

DotCreate ==
    \E p \in DotRepoUrls :
        /\ req' = Environ("POST", p, "create=true", <<>>, "")
        /\ Respond

DotPost ==
    \E p \in DotConfigUrls \cup DotBlobUrls :
        /\ req' = Environ("POST", p, "", <<>>, Content(1))
        /\ Respond

DotGet ==
    \E p \in DotConfigUrls \cup DotBlobUrls \cup DotListUrls :
        /\ req' = Environ("GET", p, "", <<>>, "")
        /\ Respond

DotDelete ==
    \E p \in DotRepoUrls \cup DotConfigUrls \cup DotBlobUrls \cup {"/r/config/x"} :
        /\ req' = Environ("DELETE", p, "", <<>>, "")
        /\ Respond

NextDot == DotCreate \/ DotPost \/ DotGet \/ DotDelete

SpecDot == InitDot /\ [][NextDot]_vars

-----------------------------------------------------------------------------
(* SpecPath: reads of paths whose second segment is a type, starts with a  *)
(* type, or is another word, with and without a third segment and the      *)
(* optional slashes, on a repository that holds a blob of each kind.       *)

SecondSegments ==
    {RESTIC_TYPES[k] : k \in 1..Len(RESTIC_TYPES)}
        \cup {"foo", "dat", "dataabc", "datadata", "keysk1", "configx"}

ThirdSegments == {"", "/", "/abc", "/abc/", "/k1"}

PathUrls ==
    {lead \o "repo/" \o second \o third :
        lead \in {"", "/"}, second \in SecondSegments, third \in ThirdSegments}

InitPath ==
    /\ fs = Tree(RepoDirs("repo", TypeDirSet) \cup {ROOT_PATH \o <<"repo", "data", "ab">>},
                 {ROOT_PATH \o <<"repo", "config">>,
                  ROOT_PATH \o <<"repo", "data", "ab", "abc">>,
                  ROOT_PATH \o <<"repo", "keys", "k1">>})
    /\ req = Environ("", "", "", <<>>, "")
    /\ resp = <<>>
    /\ entry = ""
    /\ frames = <<>>

PathGet ==
    \E p \in PathUrls :
        /\ req' = Environ("GET", p, "", <<>>, "")
        /\ Respond

PathHead ==
    \E p \in PathUrls :
        /\ req' = Environ("HEAD", p, "", <<>>, "")
        /\ Respond

NextPath == PathGet \/ PathHead

SpecPath == InitPath /\ [][NextPath]_vars

-----------------------------------------------------------------------------
(* SpecDirect: the handlers called one by one, not through __iter__, with  *)
(* every method in the environ, on a repository that starts with a config  *)
(* and two blobs.                                                          *)

DirectMethods == {"GET", "POST", "DELETE", "HEAD", "PUT"}

InitDirect ==
    /\ fs = Tree(RepoDirs("r", TypeDirSet) \cup {ROOT_PATH \o <<"r", "data", "aa">>},
                 {ROOT_PATH \o <<"r", "config">>,
                  ROOT_PATH \o <<"r", "data", "aa", "aa0">>,
                  ROOT_PATH \o <<"r", "keys", "k1">>})
    /\ req = Environ("", "", "", <<>>, "")
    /\ resp = <<>>
    /\ entry = ""
    /\ frames = <<>>

\* the call of the handler, with the outcomes of the call and of consuming
\* what it returns
Direct(handler, outcomes) ==
    \E o \in outcomes :
        /\ fs' = o.fs
        /\ resp' = o.ev
        /\ entry' = handler
        /\ UNCHANGED frames

DirectEnviron(m) == Environ(m, "", "", <<>>, Content(1))

CallCreateRepository ==
    \E m \in DirectMethods :
        /\ req' = DirectEnviron(m)
        /\ Direct("create_repository", create_repository(fs, req', "r"))

CallDeleteRepository ==
    \E m \in DirectMethods :
        /\ req' = DirectEnviron(m)
        /\ Direct("delete_repository", delete_repository(fs, req', "r"))

CallConfigExists ==
    \E m \in DirectMethods :
        /\ req' = DirectEnviron(m)
        /\ Direct("config_exists", config_exists(fs, req', "r"))

CallGetConfig ==
    \E m \in DirectMethods :
        /\ req' = DirectEnviron(m)
        /\ Direct("get_config", get_config(fs, req', "r"))

CallSetConfig ==
    \E m \in DirectMethods :
        /\ req' = DirectEnviron(m)
        /\ Direct("set_config", set_config(fs, req', "r"))

CallGetPathList ==
    \E m \in DirectMethods, t \in {"data", "keys"} :
        /\ req' = DirectEnviron(m)
        /\ Direct("get_path_list", get_path_list(fs, req', "r", t))

CallGetPathCheck ==
    \E m \in DirectMethods, b \in {<<"data", "aa0">>, <<"keys", "k1">>} :
        /\ req' = DirectEnviron(m)
        /\ Direct("get_path_check", get_path_check(fs, req', "r", b[1], b[2]))

CallGetPathData ==
    \E m \in DirectMethods, b \in {<<"data", "aa0">>, <<"keys", "k1">>} :
        /\ req' = DirectEnviron(m)
        /\ Direct("get_path_data", get_path_data(fs, req', "r", b[1], b[2]))

CallSetPathData ==
    \E m \in DirectMethods, b \in {<<"data", "aa0">>, <<"keys", "k1">>} :
        /\ req' = DirectEnviron(m)
        /\ Direct("set_path_data", set_path_data(fs, req', "r", b[1], b[2]))

CallDeletePathData ==
    \E m \in DirectMethods, b \in {<<"data", "aa0">>, <<"keys", "k1">>} :
        /\ req' = DirectEnviron(m)
        /\ Direct("delete_path_data", delete_path_data(fs, req', "r", b[1], b[2]))

NextDirect ==
    \/ CallCreateRepository \/ CallDeleteRepository
    \/ CallConfigExists \/ CallGetConfig \/ CallSetConfig
    \/ CallGetPathList \/ CallGetPathCheck \/ CallGetPathData
    \/ CallSetPathData \/ CallDeletePathData

SpecDirect == InitDirect /\ [][NextDirect]_vars

-----------------------------------------------------------------------------
(* SpecOverlap: two requests served at the same time, as by two threads or *)
(* two processes of a WSGI server.  Each request has a frame, the position *)
(* of its generator; one step is one call of one request into the          *)
(* filesystem, with what the generator does up to its next call.  An open  *)
(* file is read as it was when it was opened, also after its name is       *)
(* unlinked; no request here writes to a file that another one reads.      *)
(* shutil.rmtree is taken as one step.                                     *)

\* the handler __iter__ returns for the environ, "" for any other answer
Handler(environ) ==
    LET parsed == get_path(environ)
        create == InSeq("true", QueryValues(environ.QUERY_STRING, "create"))
        m == environ.REQUEST_METHOD
        named == parsed[1] # None /\ parsed[2] \notin {None, "config"} /\ parsed[3] # None
        bare == parsed[1] # None /\ parsed[2] = None /\ parsed[3] = None
    IN  IF m = "POST" /\ create /\ bare THEN "create_repository"
        ELSE IF m = "POST" /\ named THEN "set_path_data"
        ELSE IF m = "GET" /\ named THEN "get_path_data"
        ELSE IF m = "HEAD" /\ named THEN "get_path_check"
        ELSE IF m = "DELETE" /\ bare THEN "delete_repository"
        ELSE IF m = "DELETE" /\ named THEN "delete_path_data"
        ELSE ""

\* the generator of a request that has not run yet
Frame(environ) ==
    [environ |-> environ, handler |-> Handler(environ),
     path |-> get_path(environ)[1], type |-> get_path(environ)[2],
     name |-> get_path(environ)[3],
     pc |-> "exists", k |-> 1, ev |-> <<>>]

\* full_path of the blob handlers
FullPath(fr) ==
    IF fr.type = "data"
    THEN ROOT_PATH \o <<fr.path, fr.type, Slice(fr.name, 0, 2), fr.name>>
    ELSE ROOT_PATH \o <<fr.path, fr.type, fr.name>>

\* the pairs of requests that overlap, each with the tree it starts on
Stocked ==
    Tree(RepoDirs("r", TypeDirSet) \cup {ROOT_PATH \o <<"r", "data", "aa">>},
         {ROOT_PATH \o <<"r", "data", "aa", "aa0">>, ROOT_PATH \o <<"r", "keys", "k1">>})

Writes ==
    {<<Environ("POST", "/r/data/aa1", "", <<>>, b1), Environ("POST", "/r/data/aa2", "", <<>>, b2),
       Tree(RepoDirs("r", TypeDirSet), {})>> : b1 \in {Content(1), Big}, b2 \in {Content(2)}}

Creates ==
    {<<Environ("POST", "/r", "create=true", <<>>, ""),
       Environ("POST", "/r", "create=true", <<>>, ""),
       Tree({}, {})>>}

Races ==
    UNION {{<<Environ(m, b, "", h, ""), Environ("DELETE", d, "", <<>>, ""), Stocked>> :
                m \in {"GET", "HEAD"}, h \in {<<>>, <<"bytes=0-1">>}, d \in {b, "/r"}} :
             b \in {"/r/data/aa0", "/r/keys/k1"}}

Overlaps == Writes \cup Creates \cup Races

InitOverlap ==
    \E o \in Overlaps :
        /\ fs = o[3]
        /\ frames = <<Frame(o[1]), Frame(o[2])>>
        /\ req = Environ("", "", "", <<>>, "")
        /\ resp = <<>>
        /\ entry = "__iter__"

\* request p goes on: the filesystem becomes f and its frame fr
Advance(p, f, fr) ==
    /\ fs' = f
    /\ frames' = [frames EXCEPT ![p] = fr]
    /\ UNCHANGED <<req, resp, entry>>

Ends(fr, events) == [fr EXCEPT !.pc = "done", !.ev = @ \o events]

Ok200 == <<Start(HTTP_RESPONSES(200), <<>>), Yield("")>>

StepCreateRepository(p) ==
    LET fr == frames[p]
        full_path == ROOT_PATH \o <<fr.path>>
        dirs == <<full_path>> \o [k \in 1..Len(TypeDirs) |-> full_path \o <<TypeDirs[k]>>]
        made == mkdir(fs, dirs[fr.k])
    IN  /\ fr.handler = "create_repository"
        /\ IF fr.pc = "exists"
           THEN Advance(p, fs, [fr EXCEPT !.pc = IF exists(fs, full_path)
                                                THEN "respond" ELSE "mkdir"])
           ELSE IF fr.pc = "mkdir"
           THEN IF made.ok
                THEN Advance(p, made.fs,
                             [fr EXCEPT !.k = @ + 1,
                                        !.pc = IF fr.k = Len(dirs) THEN "respond" ELSE "mkdir"])
                ELSE Advance(p, fs, [fr EXCEPT !.pc = "respond",
                                               !.ev = @ \o send_error("Failed to create repository.")])
           ELSE /\ fr.pc = "respond"
                /\ Advance(p, fs, Ends(fr, Ok200))

StepDeleteRepository(p) ==
    LET fr == frames[p]
        full_path == ROOT_PATH \o <<fr.path>>
        gone == rmtree(fs, full_path)
    IN  /\ fr.handler = "delete_repository"
        /\ IF fr.pc = "exists"
           THEN IF exists(fs, full_path)
                THEN Advance(p, fs, [fr EXCEPT !.pc = "rmtree"])
                ELSE Advance(p, fs, Ends(fr, send_error("Repository does not exist.")))
           ELSE /\ fr.pc = "rmtree"
                /\ Advance(p, gone.fs, Ends(fr, IF gone.ok THEN Ok200 ELSE <<Raise("OSError")>>))

StepSetPathData(p) ==
    LET fr == frames[p]
        shard == ROOT_PATH \o <<fr.path, fr.type, Slice(fr.name, 0, 2)>>
        made == mkdir(fs, shard)
        written == write_file(fs, FullPath(fr), copy_input(fr.environ))
    IN  /\ fr.handler = "set_path_data"
        /\ IF fr.pc = "exists"
           THEN Advance(p, fs, [fr EXCEPT !.pc = IF fr.type = "data" /\ ~exists(fs, shard)
                                                THEN "mkdir" ELSE "open"])
           ELSE IF fr.pc = "mkdir"
           THEN IF made.ok
                THEN Advance(p, made.fs, [fr EXCEPT !.pc = "open"])
                ELSE Advance(p, fs, Ends(fr, <<Raise("OSError")>>))
           ELSE /\ fr.pc = "open"
                /\ IF written.ok
                   THEN Advance(p, written.fs, Ends(fr, Ok200))
                   ELSE Advance(p, fs, Ends(fr, <<Raise("OSError")>>))

StepDeletePathData(p) ==
    LET fr == frames[p]
        gone == unlink(fs, FullPath(fr))
    IN  /\ fr.handler = "delete_path_data"
        /\ IF fr.pc = "exists"
           THEN IF exists(fs, FullPath(fr))
                THEN Advance(p, fs, [fr EXCEPT !.pc = "unlink"])
                ELSE Advance(p, fs, Ends(fr, send_error("Path data does not exist.")))
           ELSE /\ fr.pc = "unlink"
                /\ Advance(p, gone.fs, Ends(fr, IF gone.ok THEN Ok200 ELSE <<Raise("OSError")>>))

StepGetPathCheck(p) ==
    LET fr == frames[p]
        \* the response of the handler when nothing comes between
        whole == (CHOOSE o \in get_path_check(fs, fr.environ, fr.path, fr.type, fr.name) : TRUE).ev
    IN  /\ fr.handler = "get_path_check"
        /\ IF fr.pc = "exists"
           THEN IF exists(fs, FullPath(fr))
                THEN Advance(p, fs, [fr EXCEPT !.pc = "stat"])
                ELSE Advance(p, fs, Ends(fr, whole))
           ELSE /\ fr.pc = "stat"
                /\ IF exists(fs, FullPath(fr))
                   THEN Advance(p, fs, Ends(fr, whole))
                   ELSE Advance(p, fs, Ends(fr, <<Raise("OSError")>>))

StepGetPathData(p) ==
    LET fr == frames[p]
        \* the response of the handler when nothing comes between: the
        \* call of start_response, then the chunks
        whole == (CHOOSE o \in get_path_data(fs, fr.environ, fr.path, fr.type, fr.name) : TRUE).ev
    IN  /\ fr.handler = "get_path_data"
        /\ IF fr.pc = "exists"
           THEN IF exists(fs, FullPath(fr))
                THEN Advance(p, fs, [fr EXCEPT !.pc = "stat"])
                ELSE Advance(p, fs, Ends(fr, whole))
           ELSE IF fr.pc = "stat"
           THEN IF exists(fs, FullPath(fr))
                THEN Advance(p, fs, [fr EXCEPT !.pc = "open", !.ev = <<Head(whole)>>])
                ELSE Advance(p, fs, Ends(fr, <<Raise("OSError")>>))
           ELSE /\ fr.pc = "open"
                /\ IF exists(fs, FullPath(fr))
                   THEN Advance(p, fs, Ends(fr, Tail(whole)))
                   ELSE Advance(p, fs, Ends(fr, <<Raise("OSError")>>))

Requests == {1, 2}

NextOverlap ==
    \E p \in Requests :
        \/ StepCreateRepository(p)
        \/ StepDeleteRepository(p)
        \/ StepSetPathData(p)
        \/ StepDeletePathData(p)
        \/ StepGetPathCheck(p)
        \/ StepGetPathData(p)

SpecOverlap == InitOverlap /\ [][NextOverlap]_vars

-----------------------------------------------------------------------------
(* SpecLoop: the loops of get_config, get_path_data and set_path_data, one *)
(* read(READ_BYTES) per step.  A request arrives when the response before  *)
(* it has been consumed; its frame holds the stream the loop reads (the    *)
(* file, or the body of the request), the offset in it and the variables   *)
(* of the loop.                                                            *)

LoopConfig == ROOT_PATH \o <<"r", "config">>
LoopFile == ROOT_PATH \o <<"r", "data", "aa", "aa0">>

LoopRanges == {<<>>} \cup {<<h>> : h \in SingleRanges}

InitLoop ==
    \E c \in Contents :
        /\ fs = Put(Put(Tree(RepoDirs("r", TypeDirSet) \cup {ROOT_PATH \o <<"r", "data", "aa">>},
                             {}),
                        LoopConfig, File(c)),
                    LoopFile, File(c))
        /\ req = Environ("", "", "", <<>>, "")
        /\ resp = <<>>
        /\ entry = ""
        /\ frames = <<>>

\* no response is under way
Idle == frames = <<>>

\* the frame of a generator at the top of its loop: the stream at offset
\* pos, sent_length = 0
LoopFrame(handler, stream, pos, ranged, length) ==
    [handler |-> handler, stream |-> stream, start |-> pos, pos |-> pos,
     ranged |-> ranged, length |-> length, sent_length |-> 0, reads |-> 0,
     pc |-> "read"]

\* get_config up to its loop: the file exists, start_response is called
StartGetConfig ==
    /\ Idle
    /\ req' = Environ("GET", "/r/config", "", <<>>, "")
    /\ resp' = <<Start(HTTP_RESPONSES(200),
                       << <<"Content-Type", "binary/octet-stream">>,
                          <<"Content-Length", str(st_size(fs, LoopConfig))>> >>)>>
    /\ frames' = <<LoopFrame("get_config", fs[LoopConfig].content, 0, FALSE, 0)>>
    /\ entry' = "__iter__"
    /\ UNCHANGED fs

\* data = in_file.read(READ_BYTES); if not data: break; yield data
LoopGetConfig ==
    LET fr == frames[1]
        data == Slice(fr.stream, fr.pos, fr.pos + READ_BYTES)
    IN  /\ frames # <<>>
        /\ fr.handler = "get_config"
        /\ fr.pc = "read"
        /\ IF Len(data) = 0
           THEN /\ frames' = <<[fr EXCEPT !.reads = @ + 1, !.pc = "done"]>>
                /\ UNCHANGED resp
           ELSE /\ frames' = <<[fr EXCEPT !.reads = @ + 1, !.pos = @ + Len(data)]>>
                /\ resp' = Append(resp, Yield(data))
        /\ UNCHANGED <<fs, req, entry>>

\* get_path_data up to one of its loops: the file exists, the Range header
\* is matched, start_response is called, in_file.seek(start)
StartGetPathData ==
    \E h \in LoopRanges :
        LET http_range == IF h = <<>> THEN None ELSE h[1]
            range_match == IF http_range # "" THEN RANGE_RE(http_range) ELSE NoMatch
            ranged == http_range # "" /\ range_match # NoMatch
            start == int(range_match[1])
            end_text == range_match[2]
            end == IF end_text # "" THEN int(end_text) ELSE 0
            has_end == end_text # "" /\ end # 0
            length == IF has_end THEN end - start + 1 ELSE st_size(fs, LoopFile) - start
        IN  /\ Idle
            /\ req' = Environ("GET", "/r/data/aa0", "", h, "")
            /\ resp' = IF ranged
                       THEN <<Start(HTTP_RESPONSES(206),
                                    << <<"Content-Type", "binary/octet-stream">>,
                                       <<"Content-Length", str(length)>>,
                                       <<"Content-Range",
                                         "bytes=" \o str(start) \o "-"
                                         \o (IF has_end THEN str(end) ELSE "")>> >>)>>
                       ELSE <<Start(HTTP_RESPONSES(200),
                                    << <<"Content-Type", "binary/octet-stream">>,
                                       <<"Content-Length", str(st_size(fs, LoopFile))>> >>)>>
            /\ frames' = <<LoopFrame("get_path_data", fs[LoopFile].content,
                                     IF ranged THEN start ELSE 0, ranged,
                                     IF ranged THEN length ELSE 0)>>
            /\ entry' = "__iter__"
            /\ UNCHANGED fs

\* a variant of the loops of get_path_data that go on to the end of the
\* file: the ranged one does not look at sent_length
LoopGetPathData_whole ==
    LET fr == frames[1]
        data == Slice(fr.stream, fr.pos, fr.pos + READ_BYTES)
    IN  /\ frames # <<>>
        /\ fr.handler = "get_path_data"
        /\ fr.pc = "read"
        /\ IF Len(data) = 0
           THEN /\ frames' = <<[fr EXCEPT !.reads = @ + 1, !.pc = "done"]>>
                /\ UNCHANGED resp
           ELSE /\ frames' = <<[fr EXCEPT !.reads = @ + 1, !.pos = @ + Len(data),
                                          !.sent_length = @ + Len(data)]>>
                /\ resp' = Append(resp, Yield(data))
        /\ UNCHANGED <<fs, req, entry>>

\* data = in_file.read(READ_BYTES), then in the ranged loop
\*   if not data or sent_length >= length: break
\*   yield data[:length - sent_length] or data; sent_length += len(data)
\* and in the other   if not data: break; yield data
LoopGetPathData ==
    LET fr == frames[1]
        data == Slice(fr.stream, fr.pos, fr.pos + READ_BYTES)
    IN  /\ frames # <<>>
        /\ fr.handler = "get_path_data"
        /\ fr.pc = "read"
        /\ IF Len(data) = 0 \/ (fr.ranged /\ fr.sent_length >= fr.length)
           THEN /\ frames' = <<[fr EXCEPT !.reads = @ + 1, !.pc = "done"]>>
                /\ UNCHANGED resp
           ELSE /\ frames' = <<[fr EXCEPT !.reads = @ + 1, !.pos = @ + Len(data),
                                          !.sent_length = @ + Len(data)]>>
                /\ resp' = Append(resp,
                                  Yield(IF fr.ranged /\ fr.sent_length + Len(data) > fr.length
                                        THEN Slice(data, 0, fr.length - fr.sent_length)
                                        ELSE data))
        /\ UNCHANGED <<fs, req, entry>>

\* set_path_data up to its loop: the shard exists, open(full_path, 'wb')
\* leaves the file empty
StartSetPathData ==
    \E b \in Contents :
        /\ Idle
        /\ req' = Environ("POST", "/r/data/aa0", "", <<>>, b)
        /\ resp' = <<>>
        /\ fs' = write_file(fs, LoopFile, "").fs
        /\ frames' = <<LoopFrame("set_path_data", b, 0, FALSE, 0)>>
        /\ entry' = "__iter__"

\* data = wsgi.input.read(READ_BYTES); if not data: break;
\* out_file.write(data); after the loop start_response and yield b''
LoopSetPathData ==
    LET fr == frames[1]
        data == Slice(fr.stream, fr.pos, fr.pos + READ_BYTES)
    IN  /\ frames # <<>>
        /\ fr.handler = "set_path_data"
        /\ fr.pc = "read"
        /\ IF Len(data) = 0
           THEN /\ frames' = <<[fr EXCEPT !.reads = @ + 1, !.pc = "done"]>>
                /\ resp' = <<Start(HTTP_RESPONSES(200), <<>>), Yield("")>>
                /\ UNCHANGED fs
           ELSE /\ frames' = <<[fr EXCEPT !.reads = @ + 1, !.pos = @ + Len(data)]>>
                /\ fs' = write_file(fs, LoopFile, fs[LoopFile].content \o data).fs
                /\ UNCHANGED resp
        /\ UNCHANGED <<req, entry>>

\* the generator is exhausted: the server is done with the request
LoopEnd ==
    /\ frames # <<>>
    /\ frames[1].pc = "done"
    /\ req' = Environ("", "", "", <<>>, "")
    /\ resp' = <<>>
    /\ entry' = ""
    /\ frames' = <<>>
    /\ UNCHANGED fs

NextLoop ==
    \/ StartGetConfig \/ StartGetPathData \/ StartSetPathData
    \/ LoopGetConfig \/ LoopGetPathData \/ LoopSetPathData
    \/ LoopEnd

SpecLoop == InitLoop /\ [][NextLoop]_vars

\* the server goes on consuming the generator of a response it has started
SpecLoopLive ==
    /\ SpecLoop
    /\ WF_vars(LoopGetConfig) /\ WF_vars(LoopGetPathData) /\ WF_vars(LoopSetPathData)

-----------------------------------------------------------------------------
(* SpecQuery: POSTs on the repository r under every form of the query      *)
(* string.  A query string is a list of up to two fields; a field is what  *)
(* the client writes for a name and a value: 'name=value', written plainly *)
(* or with percent escapes or a '+', 'name=' for the empty value, or the   *)
(* bare name.                                                              *)

QueryNames == {"create", "Create", "x"}
QueryTokens == {"true", "TRUE", "false", "1", "truee"}

\* the text of a field and the name and value it stands for (None: the
\* field has no '=')
Field(text, name, value) == [text |-> text, name |-> name, value |-> value]

QueryFields ==
    {Field(n \o "=" \o v, n, v) : n \in QueryNames, v \in QueryTokens}
        \cup {Field(n \o "=", n, "") : n \in QueryNames}
        \cup {Field(n, n, None) : n \in QueryNames}
        \cup {Field("create=tru%65", "create", "true"),
              Field("creat%65=true", "create", "true"),
              Field("create=%54rue", "create", "True"),
              Field("create=true+", "create", "true "),
              Field("create=true%", "create", "true%")}

\* the second field of a query string of two
MoreFields ==
    {Field("create=true", "create", "true"),
     Field("create=false", "create", "false"),
     Field("x=1", "x", "1")}

QueryLists ==
    {<<>>} \cup {<<f>> : f \in QueryFields}
           \cup {<<f, g>> : f \in QueryFields, g \in MoreFields}

\* the query string of a list of fields
QueryString(fields) ==
    IF fields = <<>> THEN ""
    ELSE IF Len(fields) = 1 THEN fields[1].text
    ELSE fields[1].text \o "&" \o fields[2].text

TypedUrls == {"/r/keys", "/r/config", "/r/keys/k1"}

QueryCreate ==
    \E q \in QueryLists :
        /\ req' = Environ("POST", "/r", QueryString(q), <<>>, "")
        /\ Respond

QueryPost ==
    \E p \in TypedUrls, q \in {"", "create=true"} :
        /\ req' = Environ("POST", p, q, <<>>, Content(1))
        /\ Respond

QueryDelete ==
    /\ req' = Environ("DELETE", "/r", "", <<>>, "")
    /\ Respond

NextQuery == QueryCreate \/ QueryPost \/ QueryDelete

SpecQuery == Init /\ [][NextQuery]_vars

-----------------------------------------------------------------------------
(* SpecParse: get_path on the paths of one, two and three segments, with   *)
(* and without a slash before and after.  The names are plain ones, type   *)
(* tokens, names that begin with a type token and names with a dot or a    *)
(* newline.                                                                *)

ParseNames == {"repo", "r", "data", "config", "datax", "keysk1", "a.b", "k\n"}

Slashes == {"", "/"}

ParseUrls ==
    UNION {{lead \o r \o trail : r \in ParseNames}
           \cup {lead \o r \o "/" \o RESTIC_TYPES[t] \o trail :
                   r \in ParseNames, t \in 1..Len(RESTIC_TYPES)}
           \cup {lead \o r \o "/" \o RESTIC_TYPES[t] \o "/" \o n \o trail :
                   r \in ParseNames, t \in 1..Len(RESTIC_TYPES), n \in ParseNames} :
             lead \in Slashes, trail \in Slashes}

InitParse ==
    \E p \in ParseUrls :
        /\ fs = [c \in {<<>>, ROOT_PATH} |-> Dir]
        /\ req = Environ("GET", p, "", <<>>, "")
        /\ resp = <<>>
        /\ entry = ""
        /\ frames = <<>>

\* path, restic_type, name = self.get_path()
ParseGetPath ==
    /\ entry = ""
    /\ entry' = "get_path"
    /\ frames' = <<get_path(req)>>
    /\ UNCHANGED <<fs, req, resp>>

NextParse == ParseGetPath

SpecParse == InitParse /\ [][NextParse]_vars

-----------------------------------------------------------------------------
(* The vocabulary of the properties: the resources the clients address,    *)
(* each with the repository, type and name its URL stands for, the URL of  *)
(* the listing that shows it, and the file the specification gives it.     *)

Blob(url, list, repo, type, name) ==
    [url |-> url, list |-> list, repo |-> repo, type |-> type, name |-> name]

Blobs ==
    {Blob("/r/data/aa0", "/r/data", "r", "data", "aa0"),
     Blob("/r/keys/k1", "/r/keys", "r", "keys", "k1"),
     Blob("/r/locks/l1", "/r/locks", "r", "locks", "l1"),
     Blob("/r/snapshots/s1", "/r/snapshots", "r", "snapshots", "s1"),
     Blob("/r/index/i1", "/r/index", "r", "index", "i1")}

Config == Blob("/r/config", "", "r", "config", "")

\* root/repo/config, root/repo/data/<first two characters of name>/<name>,
\* root/repo/<type>/<name>
BlobFile(b) ==
    IF b.type = "config" THEN ROOT_PATH \o <<b.repo, "config">>
    ELSE IF b.type = "data"
    THEN ROOT_PATH \o <<b.repo, "data", Slice(b.name, 0, 2), b.name>>
    ELSE ROOT_PATH \o <<b.repo, b.type, b.name>>

RepoExists(f, b) == IsDir(f, ROOT_PATH \o <<b.repo>>)

Stored(f, b) == IsFile(f, BlobFile(b))

StoredContent(f, b) == f[BlobFile(b)].content

\* e is the request of the method for the URL, with no query
IsRequest(e, method, url) ==
    e.REQUEST_METHOD = method /\ e.PATH_INFO = url /\ e.QUERY_STRING = ""

\* e is a GET of the URL without a Range header
FullGet(e, url) == IsRequest(e, "GET", url) /\ e.HTTP_RANGE = <<>>

\* the response ev has the status of the code and ended without an exception
Answers(ev, code) == Status(ev) = HTTP_RESPONSES(code) /\ ~Raised(ev)

-----------------------------------------------------------------------------
(* C1 *)

RoundTrip(b) ==
    (RepoExists(fs, b) /\ IsRequest(req, "POST", b.url) /\ FullGet(req', b.url))
    => /\ Answers(resp', 200)
       /\ Header(resp', "Content-Length") = str(Len(req.wsgi_input))
       /\ Body(resp') = req.wsgi_input

\* C1: in an existing repository, a GET without Range that directly follows
\* a POST of the body B to the same blob or config answers 200 with
\* Content-Length len(B) and the body B, for each of the six types.
C1_RoundTrip == [][\A b \in Blobs \cup {Config} : RoundTrip(b)]_vars

\* a full GET has returned the two-read body stored in the sharded data blob
C1_Witness ==
    /\ FullGet(req, "/r/data/aa0")
    /\ Answers(resp, 200)
    /\ Body(resp) = Big

-----------------------------------------------------------------------------
(* C2 *)

Replaces(b) ==
    /\ (Stored(fs, b) /\ IsRequest(req', "POST", b.url))
       => (Stored(fs', b) /\ StoredContent(fs', b) = req'.wsgi_input)
    /\ (RepoExists(fs, b) /\ IsRequest(req, "POST", b.url))
       => /\ IsRequest(req', "HEAD", b.url)
             => /\ Answers(resp', 200)
                /\ Header(resp', "Content-Length") = str(Len(req.wsgi_input))
          /\ FullGet(req', b.list)
             => /\ Answers(resp', 200)
                /\ Body(resp') = json_dumps(<<Entry(b.name, Len(req.wsgi_input))>>)
          /\ FullGet(req', b.url)
             => /\ Answers(resp', 200)
                /\ Body(resp') = req.wsgi_input

\* C2: a POST of the body B2 to a blob or config that has content leaves
\* exactly B2 stored, whatever the lengths; the HEAD that follows a POST
\* reports Content-Length len(B2), the listing that follows reports the size
\* len(B2), the full GET that follows returns B2.
C2_Replace == [][\A b \in Blobs \cup {Config} : Replaces(b)]_vars

\* an empty body has been posted to a key, which now is stored empty
C2_Witness ==
    /\ IsRequest(req, "POST", "/r/keys/k1")
    /\ req.wsgi_input = ""
    /\ Answers(resp, 200)
    /\ Stored(fs, Blob("/r/keys/k1", "/r/keys", "r", "keys", "k1"))
    /\ StoredContent(fs, Blob("/r/keys/k1", "/r/keys", "r", "keys", "k1")) = ""

-----------------------------------------------------------------------------
(* C3 *)

\* the files below a data directory: root/<repo>/data/...
DataFiles(f) ==
    {c \in Files(f) : /\ IsPrefix(ROOT_PATH, c)
                      /\ Len(c) > Len(ROOT_PATH) + 2
                      /\ c[Len(ROOT_PATH) + 2] = "data"}

InShard(c) ==
    /\ Len(c) = Len(ROOT_PATH) + 4
    /\ c[Len(c) - 1] = Slice(c[Len(c)], 0, 2)

\* C3: every stored data file lies in the directory named by the first two
\* characters of its name; and for each named blob, with BlobFile the file
\* the specification gives it: a successful POST has stored its body there,
\* after a DELETE no file is there, a full GET answers 200 with the content
\* of that file or 404 when there is none, a HEAD answers 200 exactly when
\* that file is there.
C3_Sharding ==
    /\ \A c \in DataFiles(fs) : InShard(c)
    /\ \A b \in Blobs :
        /\ (IsRequest(req, "POST", b.url) /\ Answers(resp, 200))
           => (Stored(fs, b) /\ StoredContent(fs, b) = req.wsgi_input)
        /\ IsRequest(req, "DELETE", b.url) => ~Stored(fs, b)
        /\ FullGet(req, b.url)
           => IF Stored(fs, b)
              THEN Answers(resp, 200) /\ Body(resp) = StoredContent(fs, b)
              ELSE Answers(resp, 404)
        /\ IsRequest(req, "HEAD", b.url) => (Answers(resp, 200) <=> Stored(fs, b))

\* the data blob aa0 has been deleted from its shard, which is still there
C3_Witness ==
    /\ IsRequest(req, "DELETE", "/r/data/aa0")
    /\ Answers(resp, 200)
    /\ IsDir(fs, ROOT_PATH \o <<"r", "data", "aa">>)

-----------------------------------------------------------------------------
(* C4 *)

ListedBlobs ==
    {Blob("/r/data/aa0", "/r/data", "r", "data", "aa0"),
     Blob("/r/data/aa1", "/r/data", "r", "data", "aa1"),
     Blob("/r/data/bb0", "/r/data", "r", "data", "bb0"),
     Blob("/r/keys/k1", "/r/keys", "r", "keys", "k1")}

\* one entry, with its name and size, for each blob stored under the listing
StoredEntries(f, list) ==
    {Entry(b.name, Len(StoredContent(f, b))) :
        b \in {x \in ListedBlobs : x.list = list /\ Stored(f, x)}}

\* C4: in an existing repository, whatever writes and deletes came before,
\* a GET of the listing of a type answers 200 with Content-Type
\* application/vnd.x.restic.rest.v2 and the JSON array, in some order, of
\* exactly one entry per stored blob of the type, with the full name and
\* the size of the blob; with no blob stored it is the empty array.
C4_Listing ==
    \A list \in ListedUrls :
        (FullGet(req, list) /\ IsDir(fs, ROOT_PATH \o <<"r">>))
        => /\ Answers(resp, 200)
           /\ Header(resp, "Content-Type") = "application/vnd.x.restic.rest.v2"
           /\ Body(resp) \in {json_dumps(o) : o \in Orders(StoredEntries(fs, list))}

\* the data listing has shown three blobs of two shards, one of them empty
C4_Witness ==
    /\ FullGet(req, "/r/data")
    /\ Answers(resp, 200)
    /\ StoredEntries(fs, "/r/data")
         = {Entry("aa0", 0), Entry("aa1", MaxBody), Entry("bb0", 1)}

-----------------------------------------------------------------------------
(* C5 to C9: the blob of SpecRange and the reads of it *)

RangeBlob == Blob("/r/data/aa0", "/r/data", "r", "data", "aa0")

\* the request is a GET of the stored blob with the Range header h
RangeGet(h) ==
    /\ IsRequest(req, "GET", RangeUrl)
    /\ req.HTTP_RANGE = <<h>>
    /\ Stored(fs, RangeBlob)

\* the response is the partial one: 206, the length, the range, the body
Partial(length, range, body) ==
    /\ Answers(resp, 206)
    /\ Header(resp, "Content-Length") = str(length)
    /\ Header(resp, "Content-Range") = range
    /\ Body(resp) = body

\* the response is the full one: 200, the size, no range, the whole content
Full(content) ==
    /\ Answers(resp, 200)
    /\ Header(resp, "Content-Length") = str(Len(content))
    /\ ~HasHeader(resp, "Content-Range")
    /\ Body(resp) = content

ClosedRangeRead(s, e) ==
    LET content == StoredContent(fs, RangeBlob)
    IN  (RangeGet(ClosedRange(s, e)) /\ s <= e /\ e < Len(content))
        => Partial(e - s + 1, ClosedRange(s, e), Slice(content, s, e + 1))

\* C5: a GET with Range: bytes=S-E, 0 <= S <= E < len(C), answers 206 with
\* Content-Length E - S + 1, Content-Range 'bytes=S-E' and the body C[S..E].
C5_ClosedRange == \A s, e \in Offsets : ClosedRangeRead(s, e)

\* the read of bytes=0-0 from a blob of MaxLen bytes has returned all of it
C5_Witness ==
    /\ RangeGet(ClosedRange(0, 0))
    /\ StoredContent(fs, RangeBlob) = Content(MaxLen)
    /\ Body(resp) = Content(MaxLen)
    /\ Header(resp, "Content-Range") = "bytes=0-"

\* C5 for the ranges that end after offset 0: they are answered as stated
C5_ClosedRangePastZero == \A s, e \in Offsets : e > 0 => ClosedRangeRead(s, e)

\* C6: a GET with Range: bytes=S-, 0 <= S <= len(C), answers 206 with
\* Content-Length len(C) - S, Content-Range 'bytes=S-' and the body C[S:].
C6_OpenRange ==
    \A s \in Offsets :
        LET content == StoredContent(fs, RangeBlob)
        IN  (RangeGet(OpenRange(s)) /\ s <= Len(content))
            => Partial(Len(content) - s, OpenRange(s), Slice(content, s, Len(content)))

\* the read of bytes=1- from the two-read blob has taken two reads
C6_Witness ==
    /\ RangeGet(OpenRange(1))
    /\ StoredContent(fs, RangeBlob) = Big
    /\ Len(resp) = 3
    /\ Body(resp) = Slice(Big, 1, Len(Big))

\* C7: a GET whose Range header is absent, empty or holds no range (a
\* suffix range, another unit, a range followed by other characters)
\* answers 200 with Content-Length the size of the blob, no Content-Range
\* and the whole content.
C7_NoRange ==
    /\ (FullGet(req, RangeUrl) /\ Stored(fs, RangeBlob))
       => Full(StoredContent(fs, RangeBlob))
    /\ \A h \in NoRanges \cup TrailedRanges :
           RangeGet(h) => Full(StoredContent(fs, RangeBlob))

\* the read with bytes=1-abc has been answered as the range bytes=1-
C7_Witness ==
    /\ RangeGet(OpenRange(1) \o "abc")
    /\ StoredContent(fs, RangeBlob) = Content(MaxLen)
    /\ Partial(MaxLen - 1, OpenRange(1), Slice(Content(MaxLen), 1, MaxLen))

\* C7 without the ranges followed by other characters: the absent header
\* and the headers that hold no range are answered as stated
C7_NoRangeAtAll ==
    /\ (FullGet(req, RangeUrl) /\ Stored(fs, RangeBlob))
       => Full(StoredContent(fs, RangeBlob))
    /\ \A h \in NoRanges : RangeGet(h) => Full(StoredContent(fs, RangeBlob))

\* C8: the response to a Range header of several ranges is the response to
\* the header that holds only the first of them.
C8_FirstRange ==
    \A h \in SingleRanges, t \in MoreRanges :
        RangeGet(h \o t)
        => resp \in {o.ev : o \in iter(fs, [req EXCEPT !.HTTP_RANGE = <<h>>])}

\* the read with bytes=1-2 and a second range has returned bytes 1 to 2
C8_Witness ==
    /\ RangeGet(ClosedRange(1, 2) \o ", 7-9")
    /\ StoredContent(fs, RangeBlob) = Content(MaxLen)
    /\ Partial(2, ClosedRange(1, 2), Slice(Content(MaxLen), 1, 3))

\* the body is a slice of the content that starts at offset s and has no
\* byte past offset e
Within(body, content, s, e) ==
    /\ body = Slice(content, s, s + Len(body))
    /\ body # "" => s + Len(body) - 1 <= e

\* C9: a GET with Range: bytes=S-E, S < len(C) <= E, answers 206 with
\* Content-Length E - S + 1 and the body C[S:]; and the body of every read
\* with a range is a slice of C that starts at S and, when the range has an
\* end E, holds no byte past E.
C9_OverLong ==
    LET content == StoredContent(fs, RangeBlob)
    IN  /\ \A s, e \in Offsets :
            (RangeGet(ClosedRange(s, e)) /\ s < Len(content) /\ Len(content) <= e)
            => /\ Answers(resp, 206)
               /\ Header(resp, "Content-Length") = str(e - s + 1)
               /\ Body(resp) = Slice(content, s, Len(content))
        /\ \A s, e \in Offsets :
            RangeGet(ClosedRange(s, e)) => Within(Body(resp), content, s, e)
        /\ \A s \in Offsets :
            RangeGet(OpenRange(s)) => Within(Body(resp), content, s, Len(content))

\* the read of bytes=0-0 from the two-read blob has returned bytes past
\* offset 0
C9_Witness ==
    /\ RangeGet(ClosedRange(0, 0))
    /\ StoredContent(fs, RangeBlob) = Big
    /\ Len(Body(resp)) > 1

\* C9 for the ranges that end after offset 0: the over-long ones are
\* answered as stated, and no read returns a byte outside its range
C9_OverLongPastZero ==
    LET content == StoredContent(fs, RangeBlob)
    IN  /\ \A s, e \in Offsets :
            (RangeGet(ClosedRange(s, e)) /\ s < Len(content) /\ Len(content) <= e)
            => /\ Answers(resp, 206)
               /\ Header(resp, "Content-Length") = str(e - s + 1)
               /\ Body(resp) = Slice(content, s, Len(content))
        /\ \A s, e \in Offsets :
            (RangeGet(ClosedRange(s, e)) /\ e > 0)
            => Within(Body(resp), content, s, e)
        /\ \A s \in Offsets :
            RangeGet(OpenRange(s)) => Within(Body(resp), content, s, Len(content))

-----------------------------------------------------------------------------
(* C10 *)

\* C10: a HEAD of a named blob answers 200 with Content-Length equal to the
\* size of the blob and an empty body when the blob is stored, and 404 with
\* no Content-Length and the body 'Requested path data does not exist.'
\* when it is not, for data and for the other named types.
C10_Existence ==
    \A b \in Blobs :
        IsRequest(req, "HEAD", b.url)
        => IF Stored(fs, b)
           THEN /\ Answers(resp, 200)
                /\ HasHeader(resp, "Content-Length")
                /\ Header(resp, "Content-Length") = str(Len(StoredContent(fs, b)))
                /\ Body(resp) = ""
           ELSE /\ Answers(resp, 404)
                /\ ~HasHeader(resp, "Content-Length")
                /\ Body(resp) = "Requested path data does not exist."

\* a HEAD has found the data blob, stored with the two-read body
C10_Witness ==
    /\ IsRequest(req, "HEAD", "/r/data/aa0")
    /\ Stored(fs, Blob("/r/data/aa0", "/r/data", "r", "data", "aa0"))
    /\ Header(resp, "Content-Length") = str(READ_BYTES + 2)

-----------------------------------------------------------------------------
(* C11 *)

\* C11: a GET of a named blob that is not stored, with a Range header or
\* without one, in a repository or type directory that exists or not,
\* answers 404 with Content-Type text/plain and the body 'Requested path
\* data does not exist.'.
C11_AbsentBlob ==
    \A b \in Blobs :
        (req.REQUEST_METHOD = "GET" /\ req.PATH_INFO = b.url /\ ~Stored(fs, b))
        => /\ Answers(resp, 404)
           /\ Header(resp, "Content-Type") = "text/plain"
           /\ Body(resp) = "Requested path data does not exist."

\* a GET with a Range header has asked for a key of a repository that has
\* no keys directory
C11_Witness ==
    /\ req.REQUEST_METHOD = "GET" /\ req.PATH_INFO = "/r/keys/k1"
    /\ req.HTTP_RANGE # <<>>
    /\ IsDir(fs, ROOT_PATH \o <<"r">>) /\ ~IsDir(fs, ROOT_PATH \o <<"r", "keys">>)
    /\ Status(resp) = HTTP_RESPONSES(404)

-----------------------------------------------------------------------------
(* C12 *)

\* C12: when the config of the repository is stored, a HEAD of it answers
\* 200 with Content-Length equal to its size and an empty body, and a GET
\* answers 200 with Content-Type binary/octet-stream, that Content-Length
\* and the stored bytes as body; when it is not stored, or the repository
\* does not exist, both answer 500 with the body 'Configuration does not
\* exist.'.
C12_Config ==
    /\ IsRequest(req, "HEAD", Config.url)
       => IF Stored(fs, Config)
          THEN /\ Answers(resp, 200)
               /\ Header(resp, "Content-Length") = str(Len(StoredContent(fs, Config)))
               /\ Body(resp) = ""
          ELSE /\ Answers(resp, 500)
               /\ Body(resp) = "Configuration does not exist."
    /\ IsRequest(req, "GET", Config.url)
       => IF Stored(fs, Config)
          THEN /\ Answers(resp, 200)
               /\ Header(resp, "Content-Type") = "binary/octet-stream"
               /\ Header(resp, "Content-Length") = str(Len(StoredContent(fs, Config)))
               /\ Body(resp) = StoredContent(fs, Config)
          ELSE /\ Answers(resp, 500)
               /\ Body(resp) = "Configuration does not exist."

\* a GET has read a stored config that takes two reads
C12_Witness ==
    /\ IsRequest(req, "GET", Config.url)
    /\ Stored(fs, Config)
    /\ Len(StoredContent(fs, Config)) > READ_BYTES
    /\ Body(resp) = StoredContent(fs, Config)

-----------------------------------------------------------------------------
(* C13 *)

\* e is the POST of the URL with the create directive
IsCreate(e, url) ==
    e.REQUEST_METHOD = "POST" /\ e.PATH_INFO = url /\ e.QUERY_STRING = "create=true"

\* the directory of the repository and its five subdirectories
NewRepo(repo) ==
    {ROOT_PATH \o <<repo>>}
        \cup {ROOT_PATH \o <<repo, t>> : t \in {"data", "keys", "locks", "snapshots", "index"}}

\* the repository is as its creation leaves it
Fresh(f, repo) == {p \in DOMAIN f : IsPrefix(ROOT_PATH \o <<repo>>, p)} = NewRepo(repo)

Creation(repo, url) ==
    /\ (~exists(fs, ROOT_PATH \o <<repo>>) /\ IsCreate(req', url))
       => /\ DOMAIN fs' = DOMAIN fs \cup NewRepo(repo)
          /\ \A p \in DOMAIN fs : fs'[p] = fs[p]
          /\ \A p \in NewRepo(repo) : fs'[p] = Dir
          /\ resp' = <<Start(HTTP_RESPONSES(200), <<>>), Yield("")>>
    /\ \A l \in ListUrls :
          (IsCreate(req, url) /\ Fresh(fs, repo) /\ FullGet(req', l))
          => Answers(resp', 200) /\ Body(resp') = "[]"

\* C13: the create request for a repository whose directory does not exist
\* makes that directory and its subdirectories data, keys, locks, snapshots
\* and index, nothing else and no config, and answers 200 with no headers
\* and an empty body; a listing of any of the five types that directly
\* follows answers 200 with the empty array.
C13_Creation == [][Creation("r", RepoUrl)]_vars

\* the create request has made the repository and answered 200
C13_Witness ==
    /\ IsCreate(req, RepoUrl)
    /\ Fresh(fs, "r")
    /\ resp = <<Start(HTTP_RESPONSES(200), <<>>), Yield("")>>

-----------------------------------------------------------------------------
(* C14 *)

\* C14: the create request for a repository whose directory exists answers
\* 200 and leaves the whole filesystem as it is, also when the repository
\* lacks some of its five subdirectories or holds a config or blobs.
C14_Idempotent ==
    [][(exists(fs, ROOT_PATH \o <<"r">>) /\ IsCreate(req', "/r"))
       => (fs' = fs /\ Answers(resp', 200))]_vars

\* the create request has answered 200 for a repository that holds a config
\* and lacks its keys directory
C14_Witness ==
    /\ IsCreate(req, "/r")
    /\ Stored(fs, Config)
    /\ ~exists(fs, ROOT_PATH \o <<"r", "keys">>)
    /\ Answers(resp, 200)

-----------------------------------------------------------------------------
(* C15 *)

\* the response ev calls start_response with the status of the code
Issues(ev, code) ==
    \E k \in 1..Len(ev) :
        ev[k].ev = "start_response" /\ ev[k].status = HTTP_RESPONSES(code)

\* C15: when the directory of the repository cannot be made (its name is
\* longer than a directory entry can be), the create request answers 500
\* with the body 'Failed to create repository.' and issues no 200.
C15_CreateFailure ==
    IsCreate(req, "/" \o LongName)
    => /\ Answers(resp, 500)
       /\ Body(resp) = "Failed to create repository."
       /\ ~Issues(resp, 200)

\* the create request has failed to make the directory: it has reported
\* the failure and made nothing
C15_Witness ==
    /\ IsCreate(req, "/" \o LongName)
    /\ Issues(resp, 500)
    /\ Body(resp) = "Failed to create repository."
    /\ ~exists(fs, ROOT_PATH \o <<LongName>>)

\* the failure is reported first: the response to the failed creation
\* begins with the 500 and its message, and ends without an exception
C15_FailureReported ==
    IsCreate(req, "/" \o LongName)
    => /\ Len(resp) >= 2
       /\ SubSeq(resp, 1, 2) = send_error("Failed to create repository.")
       /\ ~Raised(resp)
       /\ fs[ROOT_PATH] = Dir

-----------------------------------------------------------------------------
(* C16 *)

\* the filesystem f without the repository and all that is in it
Without(f, repo) ==
    [x \in {y \in DOMAIN f : ~IsPrefix(ROOT_PATH \o <<repo>>, y)} |-> f[x]]

Deletion(repo, url) ==
    IsRequest(req', "DELETE", url)
    => IF exists(fs, ROOT_PATH \o <<repo>>)
       THEN /\ fs' = Without(fs, repo)
            /\ Answers(resp', 200)
            /\ Body(resp') = ""
       ELSE /\ fs' = fs
            /\ Answers(resp', 500)
            /\ Body(resp') = "Repository does not exist."

\* C16: a DELETE of a repository that exists removes its directory with
\* the config, the blobs and the directories in it, leaves everything else
\* as it is and answers 200 with an empty body; a DELETE of a repository
\* that does not exist answers 500 with the body 'Repository does not
\* exist.' and leaves the filesystem as it is.
C16_Deletion == [][Deletion("r", "/r") /\ Deletion(LongName, "/" \o LongName)]_vars

\* a DELETE has removed the repository r and left the repository s with
\* its config and blobs
C16_Witness ==
    /\ IsRequest(req, "DELETE", "/r")
    /\ Answers(resp, 200)
    /\ ~exists(fs, ROOT_PATH \o <<"r">>)
    /\ OtherRepoFiles \subseteq Files(fs)

-----------------------------------------------------------------------------
(* C17 *)

Removal(b) ==
    /\ IsRequest(req', "DELETE", b.url)
       => IF Stored(fs, b)
          THEN /\ fs' = [x \in DOMAIN fs \ {BlobFile(b)} |-> fs[x]]
               /\ Answers(resp', 200)
               /\ Body(resp') = ""
          ELSE /\ fs' = fs
               /\ Answers(resp', 500)
               /\ Body(resp') = "Path data does not exist."
    /\ (IsRequest(req, "DELETE", b.url) /\ Answers(resp, 200))
       => /\ (IsRequest(req', "HEAD", b.url) \/ IsRequest(req', "GET", b.url))
             => Answers(resp', 404)
          \* b is the one blob of its type
          /\ FullGet(req', b.list)
             => Answers(resp', 200) /\ Body(resp') = "[]"

\* C17: a DELETE of a stored blob removes its file, nothing else, and
\* answers 200 with an empty body; a HEAD or GET of the blob that directly
\* follows answers 404 and a listing of its type does not show it; a DELETE
\* of a blob that is not stored answers 500 with the body 'Path data does
\* not exist.' and leaves the filesystem as it is.
C17_Removal == [][\A b \in Blobs : Removal(b)]_vars

\* a DELETE has removed the data blob from its shard directory
C17_Witness ==
    /\ IsRequest(req, "DELETE", "/r/data/aa0")
    /\ Answers(resp, 200)
    /\ IsDir(fs, ROOT_PATH \o <<"r", "data", "aa">>)
    /\ ~exists(fs, ROOT_PATH \o <<"r", "data", "aa", "aa0">>)

-----------------------------------------------------------------------------
(* C18 *)

\* C18: consuming the response to any request, on any filesystem, ends
\* without an exception.
C18_NoRawFault == ~Raised(resp)

\* the listing of the data of a repository that has no data directory has
\* ended with the exception of os.listdir
C18_Witness ==
    /\ FullGet(req, "/r/data")
    /\ ~exists(fs, ROOT_PATH \o <<"r", "data">>)
    /\ Raised(resp)

\* the requests whose response ends with an exception
Faulting(f, e) ==
    \/ e.PATH_INFO \in {"/r/data", "/r/keys"} /\ e.REQUEST_METHOD = "GET"
          /\ ~exists(f, ROOT_PATH \o <<"r", get_path(e)[2]>>)
    \/ e.PATH_INFO \in {"/r/data/aa0", "/r/keys/k1"} /\ e.REQUEST_METHOD = "POST"
          /\ ~exists(f, ROOT_PATH \o <<"r", get_path(e)[2]>>)
    \/ e.PATH_INFO = "/r/config" /\ e.REQUEST_METHOD = "POST"
          /\ ~exists(f, ROOT_PATH \o <<"r">>)
    \/ get_path(e)[1] = None /\ e.REQUEST_METHOD = "POST"
          /\ InSeq("true", QueryValues(e.QUERY_STRING, "create"))

\* an exception ends the response only of a listing or a write in a
\* directory that does not exist, and of a create request whose path names
\* no repository; every other response ends without one
C18_FaultsOnlyThere == [][Raised(resp') => Faulting(fs, req')]_vars

-----------------------------------------------------------------------------
(* C19 *)

Methods == {"GET", "POST", "DELETE", "HEAD"}

\* the request e is for a combination of method and resource that the
\* server does not offer
Outside(e) ==
    \/ /\ e.PATH_INFO \in {"/r", "/" \o LongName}
       /\ e.REQUEST_METHOD \in {"GET", "HEAD", "POST"}
       /\ ~InSeq("true", QueryValues(e.QUERY_STRING, "create"))
    \/ /\ e.PATH_INFO \in {"/r/data", "/r/keys"}
       /\ e.REQUEST_METHOD \in {"HEAD", "DELETE", "POST"}
    \/ /\ e.PATH_INFO = "/r/config"
       /\ e.REQUEST_METHOD = "DELETE"
    \/ e.REQUEST_METHOD \notin Methods

\* C19: a request for a method on a resource outside the matrix (GET, HEAD
\* or POST without create=true on a repository; HEAD, DELETE or POST on a
\* type of a repository; DELETE on a config; any method but GET, POST,
\* DELETE and HEAD on any path) is answered with status 500, Content-Type
\* text/plain and the message of the dispatcher, and leaves the filesystem
\* as it is.
C19_Outside ==
    [][Outside(req')
       => /\ Answers(resp', 500)
          /\ Header(resp', "Content-Type") = "text/plain"
          /\ Body(resp') = IF req'.REQUEST_METHOD \in Methods
                           THEN "Not Implemented"
                           ELSE "Unsupported request method."
          /\ fs' = fs]_vars

\* a DELETE of a stored config has been refused
C19_Witness ==
    /\ IsRequest(req, "DELETE", "/r/config")
    /\ Stored(fs, Config)
    /\ Answers(resp, 500)
    /\ Body(resp) = "Not Implemented"

-----------------------------------------------------------------------------
(* C20 *)

\* the path of the request e does not match the grammar
Unparseable(e) == get_path(e) = <<None, None, None>>

Generic(e, f, ev, g) ==
    /\ Answers(ev, 500)
    /\ Body(ev) = IF e.REQUEST_METHOD \in Methods
                  THEN "Not Implemented"
                  ELSE "Unsupported request method."
    /\ g = f

\* C20: a request whose path does not match the grammar, of any method and
\* with any query string, is answered with status 500 and the body 'Not
\* Implemented' ('Unsupported request method.' for an unknown method),
\* raises no exception and leaves the filesystem as it is.
C20_Unparseable ==
    [][Unparseable(req') => Generic(req', fs, resp', fs')]_vars

\* the create request for the path '/' has ended with an exception
C20_Witness ==
    /\ IsCreate(req, "/")
    /\ Raised(resp)

\* without the create directive on a POST, every request whose path does
\* not match the grammar is answered as C20 says
C20_UnparseableNoCreate ==
    [][(Unparseable(req')
        /\ ~(req'.REQUEST_METHOD = "POST"
             /\ InSeq("true", QueryValues(req'.QUERY_STRING, "create"))))
       => Generic(req', fs, resp', fs')]_vars

-----------------------------------------------------------------------------
(* C21 *)

\* the directories directly below the root: the repositories
Repositories(f) == {d \in DOMAIN f : Len(d) = Len(ROOT_PATH) + 1
                                      /\ IsPrefix(ROOT_PATH, d) /\ IsDir(f, d)}

FiveTypes == {"data", "keys", "locks", "snapshots", "index"}

\* every repository has its five type directories
Scaffold(f) == \A d \in Repositories(f) : \A t \in FiveTypes : IsDir(f, d \o <<t>>)

\* e is a create request for a repository, e is a DELETE of a repository
CreatesRepo(e) ==
    /\ e.REQUEST_METHOD = "POST"
    /\ InSeq("true", QueryValues(e.QUERY_STRING, "create"))
    /\ get_path(e)[1] # None /\ get_path(e)[2] = None /\ get_path(e)[3] = None

DeletesRepo(e) ==
    /\ e.REQUEST_METHOD = "DELETE"
    /\ get_path(e)[1] # None /\ get_path(e)[2] = None /\ get_path(e)[3] = None

ScaffoldStep ==
    /\ Repositories(fs') \ Repositories(fs) # {} => CreatesRepo(req')
    /\ (\E d \in Repositories(fs), t \in FiveTypes :
            IsDir(fs, d \o <<t>>) /\ ~IsDir(fs', d \o <<t>>))
       => DeletesRepo(req')

\* C21: from an empty root on, between two requests every repository
\* directory has all five type directories data, keys, locks, snapshots
\* and index; only a create request makes a repository directory appear
\* and only a DELETE of a repository removes a type directory.
C21_Scaffold == []Scaffold(fs) /\ [][ScaffoldStep]_vars

\* two repositories stand complete, one of them with a config, after a
\* request with a '.' segment
C21_Witness ==
    /\ Repositories(fs) = {ROOT_PATH \o <<"r">>, ROOT_PATH \o <<"keys">>}
    /\ IsFile(fs, ROOT_PATH \o <<"keys", "config">>)
    /\ req.PATH_INFO = "/./keys/config"

-----------------------------------------------------------------------------
(* C22 *)

\* what the filesystem f holds outside the root
OutsideRoot(f) == [x \in {y \in DOMAIN f : ~IsPrefix(ROOT_PATH, y)} |-> f[x]]

\* the repository segment or the name segment of the path of e is '..'
DotDot(e) == get_path(e)[1] = ".." \/ get_path(e)[3] = ".."

Confined ==
    /\ OutsideRoot(fs') = OutsideRoot(fs)
    /\ DotDot(req') => (Answers(resp', 500) /\ fs' = fs)

\* C22: no request creates, changes or removes anything outside the root
\* directory, and a request whose repository segment or name segment is
\* '..' is answered 500 and leaves the filesystem as it is.
C22_Confined == [][Confined]_vars

\* a POST to /../config has written a file beside the root and answered 200
C22_Witness ==
    /\ IsRequest(req, "POST", "/../config")
    /\ fs[<<"config">>] = File(Content(1))
    /\ Answers(resp, 200)

\* a request whose segments are neither '.' nor '..' leaves everything
\* outside the root as it is
C22_ConfinedOrdinary ==
    [][(get_path(req')[1] \notin {".", ".."} /\ get_path(req')[3] \notin {".", ".."})
       => OutsideRoot(fs') = OutsideRoot(fs)]_vars

-----------------------------------------------------------------------------
(* C23 *)

\* the config files of the repositories
ConfigFiles(f) == {d \o <<"config">> : d \in {x \in Repositories(f) : IsFile(f, x \o <<"config">>)}}

\* e asks for the listing of a type
IsListing(e) ==
    /\ e.REQUEST_METHOD = "GET"
    /\ get_path(e)[2] \in FiveTypes /\ get_path(e)[3] = None

\* the listing of a directory that holds one regular file named config of
\* the size n
ConfigListing(n) == json_dumps(<<Entry("config", n)>>)

ConfigKept ==
    /\ ConfigFiles(fs) \ ConfigFiles(fs') # {} => DeletesRepo(req')
    /\ IsListing(req')
       => \A c \in ConfigFiles(fs) : Body(resp') # ConfigListing(Len(fs[c].content))

\* C23: a config that has been written stays until a DELETE of a
\* repository: no DELETE whose path has a type segment removes it, and no
\* listing of a type has an entry for it.
C23_ConfigKept == [][ConfigKept]_vars

\* a DELETE with a type segment has removed the config of the repository
\* keys
C23_Witness ==
    /\ IsRequest(req, "DELETE", "/./keys/config")
    /\ Answers(resp, 200)
    /\ IsDir(fs, ROOT_PATH \o <<"keys", "keys">>)
    /\ ~exists(fs, ROOT_PATH \o <<"keys", "config">>)

\* a request whose repository segment is neither '.' nor '..' removes no
\* config unless it is the DELETE of its repository, and lists none
C23_ConfigKeptOrdinary ==
    [][get_path(req')[1] \notin {".", ".."}
       => /\ \A c \in ConfigFiles(fs) \ ConfigFiles(fs') :
                IsRequest(req', "DELETE", "/" \o c[Len(c) - 1])
          /\ IsListing(req')
             => \A c \in ConfigFiles(fs) : Body(resp') # ConfigListing(Len(fs[c].content))]_vars

-----------------------------------------------------------------------------
(* C30 *)

\* e is a POST or DELETE on a named blob of a type with a directory, the
\* name neither '.' nor '..'
BlobChange(e) ==
    /\ e.REQUEST_METHOD \in {"POST", "DELETE"}
    /\ get_path(e)[2] \in FiveTypes
    /\ get_path(e)[3] \notin {None, ".", ".."}

\* the file of the blob e names and, for data, its shard directory
BlobPaths(f, e) ==
    LET path == get_path(e)[1]
        type == get_path(e)[2]
        name == get_path(e)[3]
    IN  IF type = "data"
        THEN {Resolve(f, ROOT_PATH \o <<path, type, Slice(name, 0, 2)>>),
              Resolve(f, ROOT_PATH \o <<path, type, Slice(name, 0, 2), name>>)}
        ELSE {Resolve(f, ROOT_PATH \o <<path, type, name>>)}

\* f and g hold the same at every path but those of ps
SameBut(f, g, ps) ==
    \A c \in (DOMAIN f \cup DOMAIN g) \ ps :
        c \in DOMAIN f /\ c \in DOMAIN g /\ f[c] = g[c]

BlobFrame ==
    BlobChange(req')
    => /\ SameBut(fs, fs', BlobPaths(fs, req') \cup BlobPaths(fs', req'))
       /\ \A d \in Repositories(fs) \cup Repositories(fs') :
             LET c == d \o <<"config">>
             IN  (c \in DOMAIN fs \/ c \in DOMAIN fs')
                 => (c \in DOMAIN fs /\ c \in DOMAIN fs' /\ fs'[c] = fs[c])

\* C30: a POST or DELETE on a named blob, the name neither '.' nor '..',
\* changes that blob only, and for data its shard directory: every other
\* file and directory and the config of every repository stay as they are.
C30_Frame == [][BlobFrame]_vars

\* a POST on the blob config of the type keys of the repository '.' has
\* replaced the config of the repository keys
C30_Witness ==
    /\ IsRequest(req, "POST", "/./keys/config")
    /\ Answers(resp, 200)
    /\ IsDir(fs, ROOT_PATH \o <<"keys", "keys">>)
    /\ fs[ROOT_PATH \o <<"keys", "config">>] = File(Content(1))

\* with a repository segment other than '.' and '..' the frame holds
C30_FrameOrdinary ==
    [][get_path(req')[1] \notin {".", ".."} => BlobFrame]_vars

-----------------------------------------------------------------------------
(* C24 *)

\* the segments of a path: what stands between its slashes, without the
\* empty pieces before a leading and after a trailing slash
Segments(s) == SelectSeq(Split(s, "/"), LAMBDA x : x # "")

\* the path has a second segment that is none of the six types
OddSecond(s) ==
    /\ Len(Segments(s)) >= 2
    /\ \A k \in 1..Len(RESTIC_TYPES) : Segments(s)[2] # RESTIC_TYPES[k]

\* C24: for a path whose second segment is none of data, keys, locks,
\* snapshots, index and config, get_path returns (None, None, None).
C24_Rejects ==
    OddSecond(req.PATH_INFO) => get_path(req) = <<None, None, None>>

\* a GET of /repo/dataabc has read the data blob abc: the segment was
\* taken as a type followed by a name
C24_Witness ==
    /\ FullGet(req, "/repo/dataabc")
    /\ get_path(req) = <<"repo", "data", "abc">>
    /\ Answers(resp, 200)
    /\ Body(resp) = "abc"

\* a path with such a second segment and a third segment after it is
\* rejected
C24_RejectsThree ==
    (OddSecond(req.PATH_INFO) /\ Len(Segments(req.PATH_INFO)) >= 3)
    => get_path(req) = <<None, None, None>>

-----------------------------------------------------------------------------
(* C25 *)

\* the positions of the calls of start_response in the response ev
Starts(ev) == {k \in 1..Len(ev) : ev[k].ev = "start_response"}

\* C25: the response to every request calls start_response exactly once,
\* before anything else.
C25_Ordering ==
    req.REQUEST_METHOD # "" => Starts(resp) = {1}

\* a create request that could not make its directory has called
\* start_response twice, the second time after a body chunk
C25_Witness ==
    /\ IsCreate(req, "/" \o LongName)
    /\ Starts(resp) = {1, 3}
    /\ resp[2].ev = "yield"

\* a response that ends without an exception and is none of a failed
\* creation calls start_response once, first; and in every response a call
\* of start_response comes before the first body chunk
C25_OrderingElsewhere ==
    /\ (req.REQUEST_METHOD # "" /\ ~Raised(resp)
          /\ ~(CreatesRepo(req) /\ ~exists(fs, ROOT_PATH \o <<get_path(req)[1]>>)))
       => Starts(resp) = {1}
    /\ \A k \in 1..Len(resp) : resp[k].ev = "yield" => \E j \in Starts(resp) : j < k

-----------------------------------------------------------------------------
(* C29 *)

\* the methods each handler is decorated with
Allowed(handler) ==
    CASE handler \in {"create_repository", "set_config", "set_path_data"} -> {"POST"}
      [] handler \in {"delete_repository", "delete_path_data"} -> {"DELETE"}
      [] handler \in {"config_exists", "get_path_check"} -> {"HEAD"}
      [] handler \in {"get_config", "get_path_list", "get_path_data"} -> {"GET"}

Handlers ==
    {"create_repository", "delete_repository", "config_exists", "get_config",
     "set_config", "get_path_list", "get_path_check", "get_path_data",
     "set_path_data", "delete_path_data"}

\* C29: the call of a handler with a REQUEST_METHOD outside the methods
\* it allows raises at the call: nothing of the filesystem changes,
\* start_response is not called and no chunk is produced.
C29_Guard ==
    [][(entry' \in Handlers /\ req'.REQUEST_METHOD \notin Allowed(entry'))
       => (resp' = <<MethodNotAllowed>> /\ fs' = fs)]_vars

\* delete_repository has been called with the method GET on a repository
\* that exists, and has raised at the call
C29_Witness ==
    /\ entry = "delete_repository"
    /\ req.REQUEST_METHOD = "GET"
    /\ IsDir(fs, ROOT_PATH \o <<"r">>)
    /\ resp = <<MethodNotAllowed>>

-----------------------------------------------------------------------------
(* C26 *)

\* the request p has run to its end
Done(p) == frames[p].pc = "done"

\* the blob of the POST p is stored with the whole body of the request
Written(p) ==
    /\ IsFile(fs, FullPath(frames[p]))
    /\ fs[FullPath(frames[p])].content = frames[p].environ.wsgi_input

\* C26: of two POSTs of data blobs with the same first two characters
\* that overlap in a repository without the shard directory, each answers
\* 200 and leaves its blob stored with its whole body.
C26_SharedShard ==
    \A p \in Requests :
        (frames[p].handler = "set_path_data" /\ Done(p))
        => (Answers(frames[p].ev, 200) /\ Written(p))

\* both POSTs have found the shard directory missing; the one has made
\* it and stored its blob, the other has ended with the exception of
\* os.mkdir and stored nothing
C26_Witness ==
    /\ frames[1].handler = "set_path_data" /\ frames[2].handler = "set_path_data"
    /\ Done(1) /\ Done(2)
    /\ Answers(frames[1].ev, 200) /\ Written(1)
    /\ frames[2].ev = <<Raise("OSError")>>
    /\ ~exists(fs, FullPath(frames[2]))

\* a POST that answers 200 has stored its blob with its whole body, and of
\* the two POSTs at least one answers 200
C26_OneWrites ==
    /\ \A p \in Requests :
          (frames[p].handler = "set_path_data" /\ Done(p) /\ ~Raised(frames[p].ev))
          => (Answers(frames[p].ev, 200) /\ Written(p))
    /\ (frames[1].handler = "set_path_data" /\ Done(1) /\ Done(2))
       => \E p \in Requests : Answers(frames[p].ev, 200)

-----------------------------------------------------------------------------
(* C27 *)

\* the repository stands with its five type directories
Complete(f, repo) == \A d \in NewRepo(repo) : IsDir(f, d)

\* C27: of two create requests for the same absent repository that
\* overlap, each answers 200 and issues no 500, and a 200 is issued only
\* when the repository stands with its five type directories.
C27_BothCreate ==
    \A p \in Requests :
        frames[p].handler = "create_repository"
        => /\ ~Issues(frames[p].ev, 500)
           /\ Done(p) => Answers(frames[p].ev, 200)
           /\ Issues(frames[p].ev, 200) => Complete(fs, "r")

\* the one create request has ended with a 200 while the other has made
\* the directory of the repository and not yet all of its type directories
C27_Witness ==
    /\ frames[1].handler = "create_repository" /\ frames[2].handler = "create_repository"
    /\ frames[1].pc = "mkdir"
    /\ Done(2) /\ frames[2].ev = Ok200
    /\ ~Complete(fs, "r")

\* when both create requests have ended the repository stands complete,
\* and the last status of each is 200, with no exception
C27_CompleteAtEnd ==
    (frames[1].handler = "create_repository" /\ Done(1) /\ Done(2))
    => /\ Complete(fs, "r")
       /\ \A p \in Requests : Answers(frames[p].ev, 200)

-----------------------------------------------------------------------------
(* C28 *)

\* the request p is a GET or HEAD of a named blob
Reads(p) == frames[p].handler \in {"get_path_data", "get_path_check"}

\* the response to the read p on the tree f, with no other request about
Alone(f, p) ==
    LET fr == frames[p]
    IN  (CHOOSE o \in IF fr.handler = "get_path_data"
                      THEN get_path_data(f, fr.environ, fr.path, fr.type, fr.name)
                      ELSE get_path_check(f, fr.environ, fr.path, fr.type, fr.name) :
            TRUE).ev

\* C28: a GET or HEAD of a blob that overlaps with a DELETE of the blob
\* or of its repository never raises, and ends either as it does on the
\* stored blob (200 or 206 with its content or size) or with 404.
C28_ReadOrGone ==
    \A p \in Requests :
        Reads(p)
        => /\ ~Raised(frames[p].ev)
           /\ Done(p) => \/ frames[p].ev = Alone(Stocked, p)
                         \/ frames[p].ev = send_not_found("Requested path data does not exist.")

\* a GET has issued its 200 or 206 and then ended with the exception of
\* open, the blob removed in between
C28_Witness ==
    \E p \in Requests :
        /\ frames[p].handler = "get_path_data"
        /\ Done(p)
        /\ Len(frames[p].ev) = 2
        /\ frames[p].ev[1] = Head(Alone(Stocked, p))
        /\ frames[p].ev[2] = Raise("OSError")
        /\ ~exists(fs, FullPath(frames[p]))

\* a read that does not raise ends as on the stored blob or with 404, and
\* the DELETE beside it answers 200 and removes what it names
C28_ReadUnlessFault ==
    \A p \in Requests :
        /\ (Reads(p) /\ Done(p) /\ ~Raised(frames[p].ev))
           => \/ frames[p].ev = Alone(Stocked, p)
              \/ frames[p].ev = send_not_found("Requested path data does not exist.")
        /\ (frames[p].handler \in {"delete_path_data", "delete_repository"} /\ Done(p))
           => (frames[p].ev = Ok200 /\ ~exists(fs, FullPath(frames[1])))


-----------------------------------------------------------------------------
(* C31 *)

\* the methods that only read
ReadMethods == {"GET", "HEAD"}

\* C31: every GET and every HEAD request, on any path, with any Range
\* header and whatever its outcome (200, 206, 404, 500 or a fault in the
\* body of the response), leaves the filesystem as it found it: no file or
\* directory is created, modified or removed.
C31_ReadsPure ==
    [][req'.REQUEST_METHOD \in ReadMethods => fs' = fs]_vars

\* a HEAD has found a stored blob, which is still there
C31_Witness ==
    /\ IsRequest(req, "HEAD", "/r/keys/k1")
    /\ Answers(resp, 200)
    /\ Stored(fs, Blob("/r/keys/k1", "/r/keys", "r", "keys", "k1"))


-----------------------------------------------------------------------------
(* C32 *)

\* s is the decimal notation of a non-negative integer
IsNatural(s) == s # "" /\ \A k \in 1..Len(s) : IsDigit(SubSeq(s, k, k))

\* the request is a GET of the stored blob with the Range header h
RangedGet(h) ==
    /\ req.REQUEST_METHOD = "GET"
    /\ req.PATH_INFO = RangeUrl
    /\ req.HTTP_RANGE = <<h>>
    /\ Stored(fs, RangeBlob)

\* C32: for an existing blob and every Range header value, also with a
\* start offset beyond the size of the blob ('bytes=S-' with S > size) and
\* with an end before the start ('bytes=S-E' with E < S), the Content-Length
\* header of the response to a GET is a non-negative integer.
C32_SaneLength ==
    (\E h \in SingleRanges : RangedGet(h))
        => IsNatural(Header(resp, "Content-Length"))

\* a one-byte blob has been read from offset 2 on
C32_Witness ==
    /\ RangedGet(OpenRange(2))
    /\ StoredContent(fs, RangeBlob) = Content(1)
    /\ Status(resp) = HTTP_RESPONSES(206)

\* what holds: the declared length is a non-negative integer when the start
\* lies within the blob or at its end and the end, if any, is not before the
\* start
C32_SaneLengthWithin ==
    \A s \in Offsets :
        (Stored(fs, RangeBlob) /\ s <= Len(StoredContent(fs, RangeBlob)))
        => /\ RangedGet(OpenRange(s))
              => IsNatural(Header(resp, "Content-Length"))
           /\ \A e \in Offsets :
                  (e >= s /\ RangedGet(ClosedRange(s, e)))
                  => IsNatural(Header(resp, "Content-Length"))


-----------------------------------------------------------------------------
(* C33 *)

\* a response is under way; it has ended
Running == IF frames = <<>> THEN FALSE ELSE frames[1].pc = "read"
Ended == IF frames = <<>> THEN FALSE ELSE frames[1].pc = "done"

\* the body chunks of a response
Chunks(ev) == SelectSeq(ev, LAMBDA e : e.ev = "yield")

\* what a ranged read is to deliver: the bytes from the start on, as many as
\* declared, or those the file has
Due(fr) ==
    Slice(fr.stream, fr.start, fr.start + (IF fr.length > 0 THEN fr.length ELSE 0))

\* each chunk holds at most 8192 bytes; a loop over a stream of n bytes
\* makes at most n \div 8192 + 2 reads
Bounded ==
    /\ \A k \in 1..Len(resp) : resp[k].ev = "yield" => Len(resp[k].data) <= 8192
    /\ frames # <<>> => frames[1].reads <= Len(frames[1].stream) \div 8192 + 2

\* a ranged read that has ended has delivered what was due, and has made
\* one read more than it delivered chunks
Delivered ==
    (Ended /\ frames[1].ranged)
        => /\ Body(resp) = Due(frames[1])
           /\ frames[1].reads = Len(Chunks(resp)) + 1

\* the response the loop has produced step by step is the one of the handler
Whole == Ended => \E o \in iter(fs, req) : o.ev = resp

\* once the declared length has been delivered or the file is exhausted, the
\* next step of the ranged loop ends it and yields nothing
Stops ==
    (/\ Running
     /\ frames[1].ranged
     /\ \/ frames[1].sent_length >= frames[1].length
        \/ frames[1].pos >= Len(frames[1].stream))
        => (frames'[1].pc = "done" /\ resp' = resp)

\* C33: for every read of a finite blob or config file, with every Range
\* header value, and every write of a finite request body, the response
\* produces finitely many body chunks and then ends; the ranged-read loop
\* stops once the declared length has been delivered or the file is
\* exhausted, and each delivered chunk holds at most 8192 bytes.
C33_Terminates ==
    /\ [](Bounded /\ Delivered /\ Whole)
    /\ [][Stops]_vars
    /\ Running ~> Ended

\* a ranged read of the two-read blob has ended after two chunks, the second
\* cut to the declared length, with bytes of the file left
C33_Witness ==
    /\ Ended
    /\ frames[1].ranged
    /\ frames[1].stream = Big
    /\ Len(Chunks(resp)) = 2
    /\ Len(Body(resp)) = frames[1].length
    /\ Len(Body(resp)) < Len(Big)


-----------------------------------------------------------------------------
(* C34 *)

\* the list of fields holds a create parameter with the value 'true'
Directive(fields) ==
    \E k \in 1..Len(fields) : fields[k].name = "create" /\ fields[k].value = "true"

\* the directories of a filesystem
Directories(f) == {c \in DOMAIN f : f[c].kind = "dir"}

\* the repository r stands in f with its five type directories
Standing(f) ==
    \A t \in {"data", "keys", "locks", "snapshots", "index"} :
        IsDir(f, ROOT_PATH \o <<"r", t>>)

\* C34: a POST on the bare repository path runs the creation if and only if
\* the query string holds a create parameter one of whose values is exactly
\* 'true' ('create=true&create=false' creates); otherwise ('create=TRUE',
\* 'create=1', 'create=', no create parameter) the response is the 500 'Not
\* Implemented' and nothing is created.  On a path with a type segment
\* 'create=true' creates no repository.
C34_Directive ==
    [][/\ \A q \in QueryLists :
              (req'.PATH_INFO = "/r" /\ req'.REQUEST_METHOD = "POST"
                  /\ req'.QUERY_STRING = QueryString(q))
              => IF Directive(q)
                 THEN Answers(resp', 200) /\ Body(resp') = "" /\ Standing(fs')
                 ELSE /\ Answers(resp', 500)
                      /\ Body(resp') = "Not Implemented"
                      /\ fs' = fs
       /\ (req'.PATH_INFO \in TypedUrls /\ req'.REQUEST_METHOD = "POST"
              /\ req'.QUERY_STRING = "create=true")
          => /\ Directories(fs') = Directories(fs)
             /\ resp' \in {o.ev : o \in iter(fs, [req' EXCEPT !.QUERY_STRING = ""])}]_vars

\* 'create=true&create=false' has created the repository
C34_Witness ==
    /\ req.REQUEST_METHOD = "POST"
    /\ req.PATH_INFO = "/r"
    /\ req.QUERY_STRING = "create=true&create=false"
    /\ Answers(resp, 200)
    /\ Standing(fs)


-----------------------------------------------------------------------------
(* C35 *)

\* get_path has answered the triple for the PATH_INFO
Parsed(url, triple) ==
    (entry = "get_path" /\ req.PATH_INFO = url) => frames = <<triple>>

\* C35: for every non-empty slash-free repository name and blob name and
\* each of the six type tokens, with or without a leading slash and with or
\* without a trailing slash, get_path returns (repo, None, None) for
\* '/repo', (repo, type, None) for '/repo/type' and (repo, type, name) for
\* '/repo/type/name', also when the repository name or the blob name is a
\* type token or begins with one.
C35_Accepts ==
    \A lead \in {"", "/"}, trail \in {"", "/"}, r \in ParseNames :
        /\ Parsed(lead \o r \o trail, <<r, None, None>>)
        /\ \A t \in {"data", "keys", "locks", "snapshots", "index", "config"} :
               /\ Parsed(lead \o r \o "/" \o t \o trail, <<r, t, None>>)
               /\ \A n \in ParseNames :
                      Parsed(lead \o r \o "/" \o t \o "/" \o n \o trail, <<r, t, n>>)

\* a path whose repository name is a type token and whose blob name begins
\* with one has been parsed
C35_Witness ==
    /\ entry = "get_path"
    /\ req.PATH_INFO = "data/keys/keysk1/"
    /\ frames = << <<"data", "keys", "keysk1">> >>

====
